---- MODULE Spec2Model ----
(***************************************************************************)
(* A model of em::minitest (src/include/em/minitest.hpp): the sequential   *)
(* test runner RunTests, the boolean check detail::Assert and the          *)
(* must-throw check detail::MustThrow::operator~ with the exception chain  *)
(* walk detail::AnalyzeCurrentException.                                   *)
(*                                                                         *)
(* Strings are sequences of one-character strings.  A std::string_view or  *)
(* a const char * that can be null is a record [null, s].                  *)
(***************************************************************************)
EXTENDS Integers, Sequences, FiniteSets, TLC

VARIABLES
    pc,             \* where the process is: "static_init", "loop", "body", "after_run", "scope_exited", "returned", "exited"
    test_map,       \* detail::GetTestMap(): the std::map as a sequence of [desc, func] sorted by desc
    next_func,      \* how many register_test initializers have run (the next test function to register)
    num_tests_ran,  \* RunTests: num_tests_ran, the 1-based position of the current test in test_map
    fail_test,      \* RunTests: bool fail_test of the current loop iteration
    fail_test_ptr,  \* detail::fail_test_ptr: 0 is nullptr, i > 0 is &fail_test of iteration i
    failed_tests,   \* RunTests: failed_tests, positions in test_map
    body_len,       \* number of statements of the body of the running test
    stmt,           \* number of statements of that body that have executed
    flight,         \* the exception propagating out of the test body, if any
    exit_code,      \* process exit status: -1 while the process runs
    summary,        \* the summary printed by RunTests
    last_stmt,      \* the statement the running body executed last, with what its lambda did
    events,         \* effects of that statement, or of the handler of an uncaught exception, in program order
    reports,        \* number of failure reports emitted during the running test
    started,        \* positions of the tests started so far, in order
    outcome,        \* per started test: "Running", "Passed" or "Failed"
    ended_by        \* how the body of the test started last ended ("return", "interrupt", "error"), "none" before

vars == <<pc, test_map, next_func, num_tests_ran, fail_test, fail_test_ptr, failed_tests,
          body_len, stmt, flight, exit_code, summary, last_stmt, events, reports, started, outcome, ended_by>>

----------------------------------------------------------------------------
(* Bounds of the model. *)

MaxTests == 2       \* at most this many distinct tests are registered
MaxBody == 3        \* at most this many statements in a test body
MaxChain == 2       \* at most this many levels in a thrown chain (the deep chains apart)
MaxPattern == 2     \* at most this many expected exceptions in a must-throw check

----------------------------------------------------------------------------
(* Strings. *)

NL == "\n"

SV(s) == [s |-> s, null |-> FALSE]
NullSV == [s |-> <<>>, null |-> TRUE]

Max(a, b) == IF a > b THEN a ELSE b

\* std::string_view::find("\n"): the 1-based position of the first line break, 0 for npos.
RECURSIVE FindNL(_, _)
FindNL(s, from) ==
    IF from > Len(s) THEN 0
    ELSE IF s[from] = NL THEN from
    ELSE FindNL(s, from + 1)

\* SplitString(input, "\n", func) with a func that always returns false: the parts func is called with.
RECURSIVE SplitString(_)
SplitString(input) ==
    LET pos == FindNL(input, 1) IN
    IF pos = 0 THEN <<input>>
    ELSE <<SubSeq(input, 1, pos - 1)>> \o SplitString(SubSeq(input, pos + 1, Len(input)))

\* The loop of SplitString2 with a func that always returns false: the pairs func is called with.
RECURSIVE SplitString2Loop(_, _, _, _)
SplitString2Loop(input1, input2, done1, done2) ==
    LET pos1 == IF done1 THEN 0 ELSE FindNL(input1.s, 1)
        pos2 == IF done2 THEN 0 ELSE FindNL(input2.s, 1)
        found1 == pos1 # 0
        found2 == pos2 # 0
        part1 == IF done1 THEN NullSV
                 ELSE [s |-> IF found1 THEN SubSeq(input1.s, 1, pos1 - 1) ELSE input1.s, null |-> input1.null]
        part2 == IF done2 THEN NullSV
                 ELSE [s |-> IF found2 THEN SubSeq(input2.s, 1, pos2 - 1) ELSE input2.s, null |-> input2.null]
        rest1 == IF found1 THEN [s |-> SubSeq(input1.s, pos1 + 1, Len(input1.s)), null |-> FALSE] ELSE input1
        rest2 == IF found2 THEN [s |-> SubSeq(input2.s, pos2 + 1, Len(input2.s)), null |-> FALSE] ELSE input2
    IN  IF ~found1 /\ ~found2 THEN << <<part1, part2>> >>
        ELSE << <<part1, part2>> >> \o SplitString2Loop(rest1, rest2, ~found1, ~found2)

SplitString2(input1, input2) == SplitString2Loop(input1, input2, FALSE, FALSE)

----------------------------------------------------------------------------
(* Type names. *)

StdRuntimeError == <<"s","t","d",":",":","r","u","n","t","i","m","e","_","e","r","r","o","r">>
StdLogicError == <<"s","t","d",":",":","l","o","g","i","c","_","e","r","r","o","r">>
\* DETAIL_EM_MINITEST_EAT_PREFIX("std::_Nested_exception<")
NestedPrefix == <<"s","t","d",":",":","_","N","e","s","t","e","d","_","e","x","c","e","p","t","i","o","n","<">>

\* Demangler::operator(): the readable name of a typeid(...).name().
Demangle(name) ==
    CASE name = "St13runtime_error" -> StdRuntimeError
      [] name = "St11logic_error" -> StdLogicError
      [] name = "St17_Nested_exceptionISt13runtime_errorE" -> NestedPrefix \o StdRuntimeError \o <<">">>
      [] name = "St17_Nested_exceptionISt11logic_errorE" -> NestedPrefix \o StdLogicError \o <<">">>

StartsWith(s, prefix) == Len(s) >= Len(prefix) /\ SubSeq(s, 1, Len(prefix)) = prefix

\* AnalyzeCurrentException without DETAIL_EM_MINITEST_EAT_PREFIX: the wrapper stays in the name.
EatPrefix_Keep(type_name) == type_name

\* DETAIL_EM_MINITEST_EAT_PREFIX: drop the wrapper std::throw_with_nested adds to a type name.
EatPrefix(type_name) ==
    IF StartsWith(type_name, NestedPrefix)
    THEN SubSeq(type_name, Len(NestedPrefix) + 1, Len(type_name) - 1)
    ELSE type_name

----------------------------------------------------------------------------
(* Exceptions.  The value a body throws is a chain of levels, the thrown    *)
(* object first, then the exception nested in it, and so on.  A level is an *)
(* object derived from std::exception (its typeid name and what()), or a    *)
(* foreign value; a foreign value has nothing nested in it.                 *)

Known(tid, what) == [tid |-> tid, what |-> what, known |-> TRUE]
Foreign == [tid |-> "i", what |-> NullSV, known |-> FALSE]

NoFlight == [kind |-> "none", exc |-> <<>>]
\* InterruptTestException is no std::exception: to a catch (...) it is a foreign value.
Interrupt == [kind |-> "interrupt", exc |-> <<Foreign>>]
Thrown(exc) == [kind |-> "throw", exc |-> exc]

\* What running a lambda gives: it returns value, or it throws.
Returns(value) == [kind |-> "return", exc |-> <<>>, value |-> value]
ThrowsInterrupt == [kind |-> "interrupt", exc |-> <<Foreign>>, value |-> FALSE]
Throws(exc) == [kind |-> "throw", exc |-> exc, value |-> FALSE]

\* Effects, in program order.
Flush == [e |-> "flush"]
SetFail == [e |-> "fail"]                       \* *fail_test_ptr = true
Emit(line) == [e |-> "print", line |-> line]
ThrowInterrupt == [e |-> "throw_interrupt"]     \* throw InterruptTestException{}
Exit2 == [e |-> "internal_error"]               \* detail::InternalError: std::exit(2)

max_num_caught_exceptions == 128
message_indent == 4
initial_max_string_len == 9

\* MustThrow::Arg::Arg(const T &e): an expected exception as the check stores it.
Arg(e) == [type |-> Demangle(e.tid), message |-> e.what.s]

\* The callback PrintCurrentException passes to AnalyzeCurrentException.
PrintOnElement(st, type_name, message) ==
    LET lines ==
          IF type_name.s = <<>> THEN << Emit([tag |-> "unknown_exception"]) >>
          ELSE << Emit([tag |-> "type", text |-> type_name.s]) >> \o
               (IF ~message.null
                THEN [i \in 1..Len(SplitString(message.s)) |->
                        Emit([tag |-> "message_line", text |-> SplitString(message.s)[i]])]
                ELSE << Emit([tag |-> "null_message"]) >>)
    IN  [st |-> [st EXCEPT !.out = @ \o lines], ret |-> FALSE]

\* The longest of cur and the lengths of lines, the message indentation forgotten.
RECURSIVE MaxLineLen_NoIndent(_, _)
MaxLineLen_NoIndent(lines, cur) ==
    IF lines = <<>> THEN cur
    ELSE MaxLineLen_NoIndent(Tail(lines), Max(cur, Len(Head(lines))))

\* The longest of cur and the lengths of lines plus the message indentation.
RECURSIVE MaxLineLen(_, _)
MaxLineLen(lines, cur) ==
    IF lines = <<>> THEN cur
    ELSE MaxLineLen(Tail(lines), Max(cur, Len(Head(lines)) + 4))

\* The callback of MustThrow::operator~ without the test of lines 561-562.
MustThrowOnElement_NoBound(st, type_name, message) ==
    LET this_ex == [type |-> type_name.s, message |-> IF message.null THEN <<>> ELSE message.s]
        num_expected_exceptions == Len(st.args)
        mismatch ==
            /\ num_expected_exceptions # 0
            /\ st.num_caught_exceptions < num_expected_exceptions
            /\ LET expected_exception == st.args[st.num_caught_exceptions + 1]
               IN  \/ this_ex.type # expected_exception.type
                   \/ this_ex.message # expected_exception.message
        len ==
            IF num_expected_exceptions # 0
            THEN MaxLineLen(SplitString(this_ex.message), Max(st.max_string_len, Len(this_ex.type)))
            ELSE st.max_string_len
    IN  [st |-> [st EXCEPT !.caught_exceptions = Append(@, this_ex),
                           !.have_mismatch = @ \/ mismatch,
                           !.max_string_len = len,
                           !.num_caught_exceptions = @ + 1],
         ret |-> FALSE]

\* The callback updating max_string_len only for the elements it compares (lines 591-603
\* moved into the if of line 576).
MustThrowOnElement_WidthOfCompared(st, type_name, message) ==
    IF st.num_caught_exceptions = max_num_caught_exceptions
    THEN [st |-> [st EXCEPT !.exited = TRUE], ret |-> FALSE]
    ELSE
    LET this_ex == [type |-> type_name.s, message |-> IF message.null THEN <<>> ELSE message.s]
        num_expected_exceptions == Len(st.args)
        mismatch ==
            /\ num_expected_exceptions # 0
            /\ st.num_caught_exceptions < num_expected_exceptions
            /\ LET expected_exception == st.args[st.num_caught_exceptions + 1]
               IN  \/ this_ex.type # expected_exception.type
                   \/ this_ex.message # expected_exception.message
        len ==
            IF num_expected_exceptions # 0 /\ st.num_caught_exceptions < num_expected_exceptions
            THEN MaxLineLen(SplitString(this_ex.message), Max(st.max_string_len, Len(this_ex.type)))
            ELSE st.max_string_len
    IN  [st |-> [st EXCEPT !.caught_exceptions = Append(@, this_ex),
                           !.have_mismatch = @ \/ mismatch,
                           !.max_string_len = len,
                           !.num_caught_exceptions = @ + 1],
         ret |-> FALSE]

\* The callback with the test of line 561 one element late.
MustThrowOnElement_BoundOffByOne(st, type_name, message) ==
    IF st.num_caught_exceptions = max_num_caught_exceptions + 1
    THEN [st |-> [st EXCEPT !.exited = TRUE], ret |-> FALSE]
    ELSE
    LET this_ex == [type |-> type_name.s, message |-> IF message.null THEN <<>> ELSE message.s]
        num_expected_exceptions == Len(st.args)
        mismatch ==
            /\ num_expected_exceptions # 0
            /\ st.num_caught_exceptions < num_expected_exceptions
            /\ LET expected_exception == st.args[st.num_caught_exceptions + 1]
               IN  \/ this_ex.type # expected_exception.type
                   \/ this_ex.message # expected_exception.message
        len ==
            IF num_expected_exceptions # 0
            THEN MaxLineLen(SplitString(this_ex.message), Max(st.max_string_len, Len(this_ex.type)))
            ELSE st.max_string_len
    IN  [st |-> [st EXCEPT !.caught_exceptions = Append(@, this_ex),
                           !.have_mismatch = @ \/ mismatch,
                           !.max_string_len = len,
                           !.num_caught_exceptions = @ + 1],
         ret |-> FALSE]

\* The callback MustThrow::operator~ passes to AnalyzeCurrentException.
\* st.args are the expected exceptions; the process exits in InternalError (st.exited).
MustThrowOnElement(st, type_name, message) ==
    IF st.num_caught_exceptions = max_num_caught_exceptions
    THEN [st |-> [st EXCEPT !.exited = TRUE], ret |-> FALSE]
    ELSE
    LET this_ex == [type |-> type_name.s, message |-> IF message.null THEN <<>> ELSE message.s]
        num_expected_exceptions == Len(st.args)
        mismatch ==
            /\ num_expected_exceptions # 0
            /\ st.num_caught_exceptions < num_expected_exceptions
            /\ LET expected_exception == st.args[st.num_caught_exceptions + 1]
               IN  \/ this_ex.type # expected_exception.type
                   \/ this_ex.message # expected_exception.message
        len ==
            IF num_expected_exceptions # 0
            THEN MaxLineLen(SplitString(this_ex.message), Max(st.max_string_len, Len(this_ex.type)))
            ELSE st.max_string_len
    IN  [st |-> [st EXCEPT !.caught_exceptions = Append(@, this_ex),
                           !.have_mismatch = @ \/ mismatch,
                           !.max_string_len = len,
                           !.num_caught_exceptions = @ + 1],
         ret |-> FALSE]

\* Any other callback (FuncRef on_element): it notes what it is called with, and returns true
\* at its call number st.true_on (never when that is 0).
ProbeOnElement(st, type_name, message) ==
    [st |-> [st EXCEPT !.calls = Append(@, [type |-> type_name, message |-> message])],
     ret |-> Len(st.calls) + 1 = st.true_on]

OnElement(cb, st, type_name, message) ==
    IF cb = "print" THEN PrintOnElement(st, type_name, message)
    ELSE IF cb = "probe" THEN ProbeOnElement(st, type_name, message)
    ELSE MustThrowOnElement(st, type_name, message)

\* One level of AnalyzeCurrentException going on to what is nested in a value that is no
\* std::exception.
AnalyzeLevel_PastUnknown(cb, exc, i, w) ==
    IF w.stop THEN w
    ELSE LET e == exc[i]
             r == IF e.known
                  THEN OnElement(cb, w.st, SV(EatPrefix(Demangle(e.tid))), e.what)
                  ELSE OnElement(cb, w.st, NullSV, NullSV)
         IN  [st |-> r.st, stop |-> r.ret \/ r.st.exited, true_at |-> IF r.ret THEN i ELSE 0]

\* One level of AnalyzeCurrentException: the callback is called for level i of exc unless the
\* walk has stopped (a callback returned true, the process exited, or the level before was no
\* std::exception: catch (...) at line 409 does not look for a nested exception).  w.true_at
\* is the level at which the callback returned true, 0 if there is none.
AnalyzeLevel(cb, exc, i, w) ==
    IF w.stop THEN w
    ELSE LET e == exc[i]
             r == IF e.known
                  THEN OnElement(cb, w.st, SV(EatPrefix(Demangle(e.tid))), e.what)
                  ELSE OnElement(cb, w.st, NullSV, NullSV)
         IN  [st |-> r.st, stop |-> r.ret \/ r.st.exited \/ ~e.known,
              true_at |-> IF r.ret THEN i ELSE 0]

\* Levels lo..hi of exc, outermost first (evaluated by halves to keep the evaluation shallow).
RECURSIVE AnalyzeLevels(_, _, _, _, _)
AnalyzeLevels(cb, exc, lo, hi, w) ==
    IF lo = hi THEN AnalyzeLevel(cb, exc, lo, w)
    ELSE LET mid == (lo + hi) \div 2
             outer == AnalyzeLevels(cb, exc, lo, mid, w)
         IN  IF outer.stop THEN outer ELSE AnalyzeLevels(cb, exc, mid + 1, hi, outer)

\* detail::AnalyzeCurrentException for the exception exc being handled, with the callback cb
\* working on the state st: the value it returns and the state the callback leaves.
\* A nested level is reached through std::rethrow_if_nested when the callback returned false
\* (line 402); the value the nested call returns is dropped (line 406), so true is returned
\* only when the callback returned true for the outermost level (lines 397 and 411).
AnalyzeCurrentException(cb, exc, st) ==
    LET w == AnalyzeLevels(cb, exc, 1, Len(exc), [st |-> st, stop |-> FALSE, true_at |-> 0])
    IN  [st |-> w.st, ret |-> w.true_at = 1]

\* detail::PrintCurrentException: the lines it prints for the exception exc being handled.
PrintCurrentException(exc) ==
    AnalyzeCurrentException("print", exc, [out |-> <<>>, exited |-> FALSE]).st.out

\* RunWithCatchImpl rethrowing the interrupt whatever rethrow_interrupt is.
RunWithCatchImpl_AlwaysRethrow(rethrow_interrupt, result) ==
    CASE result.kind = "return" -> "return"
      [] result.kind = "interrupt" -> "rethrow"
      [] result.kind = "throw" -> "on_failure"

\* RunWithCatchImpl without its catch (InterruptTestException) clause.
RunWithCatchImpl_NoInterruptClause(rethrow_interrupt, result) ==
    CASE result.kind = "return" -> "return"
      [] result.kind = "interrupt" -> "on_failure"
      [] result.kind = "throw" -> "on_failure"

\* detail::RunWithCatchImpl: which way it leaves, given what func() did.
RunWithCatchImpl(rethrow_interrupt, result) ==
    CASE result.kind = "return" -> "return"
      [] result.kind = "interrupt" -> IF rethrow_interrupt THEN "rethrow" ELSE "return_false"
      [] result.kind = "throw" -> "on_failure"

----------------------------------------------------------------------------
(* The boolean check. *)

RethrowInterrupt == [e |-> "rethrow_interrupt"]     \* RunWithCatchImpl: catch (InterruptTestException) {throw;}

\* How a check leaves, given its effects: it returns ("none"), an InterruptTestException
\* propagates out of it ("interrupt"), or the process has exited ("exit").
Raised(evs) ==
    IF evs = <<>> THEN "none"
    ELSE LET last == evs[Len(evs)].e
         IN  CASE last \in {"throw_interrupt", "rethrow_interrupt"} -> "interrupt"
               [] last = "internal_error" -> "exit"
               [] OTHER -> "none"

\* FailAssert throwing before it records anything when stop_on_failure is set.
FailAssert_ThrowFirst(stop_on_failure, got_exception, exc) ==
    IF stop_on_failure THEN << Flush, ThrowInterrupt >>
    ELSE << Flush, SetFail, Emit([tag |-> "assertion_failed_at"]), Emit([tag |-> "expression"]) >>
         \o (IF got_exception
             THEN << Emit([tag |-> "threw_uncaught"]) >> \o PrintCurrentException(exc)
             ELSE << Emit([tag |-> "evaluated_to_false"]) >>)

\* FailAssert without its throw: a failing EM_CHECK would not stop the test.
FailAssert_NoInterrupt(stop_on_failure, got_exception, exc) ==
    << Flush, SetFail, Emit([tag |-> "assertion_failed_at"]), Emit([tag |-> "expression"]) >>
    \o (IF got_exception
        THEN << Emit([tag |-> "threw_uncaught"]) >> \o PrintCurrentException(exc)
        ELSE << Emit([tag |-> "evaluated_to_false"]) >>)

\* The lambda FailAssert of detail::Assert; exc is the exception being handled when got_exception.
FailAssert(stop_on_failure, got_exception, exc) ==
    << Flush, SetFail, Emit([tag |-> "assertion_failed_at"]), Emit([tag |-> "expression"]) >>
    \o (IF got_exception
        THEN << Emit([tag |-> "threw_uncaught"]) >> \o PrintCurrentException(exc)
        ELSE << Emit([tag |-> "evaluated_to_false"]) >>)
    \o (IF stop_on_failure THEN << ThrowInterrupt >> ELSE <<>>)

\* detail::Assert without "&& !got_exception" in the test of line 526.
DetailAssert_NoGotException(stop_on_failure, func_result) ==
    LET path == RunWithCatchImpl(TRUE, func_result)
    IN  CASE path = "rethrow" -> << RethrowInterrupt >>
          [] path = "on_failure" ->
                IF stop_on_failure THEN FailAssert(stop_on_failure, TRUE, func_result.exc)
                ELSE FailAssert(stop_on_failure, TRUE, func_result.exc)
                     \o FailAssert(stop_on_failure, FALSE, <<>>)
          [] path = "return" ->
                IF ~func_result.value THEN FailAssert(stop_on_failure, FALSE, <<>>) ELSE <<>>
          [] path = "return_false" -> FailAssert(stop_on_failure, FALSE, <<>>)

\* detail::Assert(stop_on_failure, file, line, expr_str, func), given what func() does: its effects.
DetailAssert(stop_on_failure, func_result) ==
    LET path == RunWithCatchImpl(TRUE, func_result)
    IN  CASE path = "rethrow" -> << RethrowInterrupt >>
          [] path = "on_failure" -> FailAssert(stop_on_failure, TRUE, func_result.exc)
          [] path = "return" ->
                IF ~func_result.value THEN FailAssert(stop_on_failure, FALSE, <<>>) ELSE <<>>
          [] path = "return_false" -> FailAssert(stop_on_failure, FALSE, <<>>)

\* The lambda FailAssert when EM_MINITEST_EXCEPTIONS is 0: got_exception does not exist and
\* nothing is thrown ((void)stop_on_failure, line 516).
FailAssertNoExceptions(stop_on_failure) ==
    << Flush, SetFail, Emit([tag |-> "assertion_failed_at"]), Emit([tag |-> "expression"]),
       Emit([tag |-> "evaluated_to_false"]) >>

\* detail::Assert in a build with exceptions, run where func() cannot throw.
DetailAssertNoExceptions_Throws(stop_on_failure, func_result) ==
    IF ~func_result.value THEN FailAssert(stop_on_failure, FALSE, <<>>) ELSE <<>>

\* detail::Assert when EM_MINITEST_EXCEPTIONS is 0: DETAIL_EM_MINITEST_RUN_WITH_CATCH is
\* (func_)() (line 480), and func() returns.
DetailAssertNoExceptions(stop_on_failure, func_result) ==
    IF ~func_result.value THEN FailAssertNoExceptions(stop_on_failure) ELSE <<>>

----------------------------------------------------------------------------
(* The must-throw check. *)

Unknown9 == <<"(","u","n","k","n","o","w","n",")">>
None6 == <<"(","n","o","n","e",")">>
Caught == <<"C","a","u","g","h","t">>
Expected == <<"E","x","p","e","c","t","e","d">>

\* FailCheck without the write to the failure flag.
FailCheck_NoFlag(message) == << Flush, Emit([tag |-> message]) >>

\* The lambda FailCheck of MustThrow::operator~.
FailCheck(message) == << Flush, SetFail, Emit([tag |-> message]) >>

\* The type row with a separator that only tells whether both sides are present.
TypeRow_SepByPresence(st, i) ==
    LET has_caught == i <= st.num_caught_exceptions
        has_expected == i <= Len(st.args)
        caught_ex == st.caught_exceptions[i]
        expected_ex == st.args[i]
    IN  Emit([tag |-> "type_row",
              width |-> st.max_string_len,
              left |-> IF has_caught /\ caught_ex.type # <<>> THEN caught_ex.type
                       ELSE IF has_caught THEN Unknown9 ELSE None6,
              sep |-> IF has_caught /\ has_expected THEN "|" ELSE "#",
              right |-> IF has_expected THEN expected_ex.type ELSE None6])

\* The type row of index i (1-based) of the table: lines 670-699.
TypeRow(st, i) ==
    LET has_caught == i <= st.num_caught_exceptions
        has_expected == i <= Len(st.args)
        caught_ex == st.caught_exceptions[i]
        expected_ex == st.args[i]
    IN  Emit([tag |-> "type_row",
              width |-> st.max_string_len,
              left |-> IF has_caught /\ caught_ex.type # <<>> THEN caught_ex.type
                       ELSE IF has_caught THEN Unknown9 ELSE None6,
              sep |-> IF has_caught /\ has_expected /\ caught_ex.type = expected_ex.type THEN "|" ELSE "#",
              right |-> IF has_expected THEN expected_ex.type ELSE None6])

\* The message rows printed without looking at .data(): a side that ran out of lines is
\* shown like an empty line.
MessageRows_NoMarker(st, i) ==
    LET has_caught == i <= st.num_caught_exceptions
        has_expected == i <= Len(st.args)
        caught_ex == st.caught_exceptions[i]
        expected_ex == st.args[i]
        pairs == SplitString2(
            IF has_caught /\ caught_ex.type # <<>> THEN SV(caught_ex.message) ELSE NullSV,
            IF has_expected /\ expected_ex.type # <<>> THEN SV(expected_ex.message) ELSE NullSV)
    IN  [k \in 1..Len(pairs) |->
            LET caught_line == pairs[k][1]
                expected_line == pairs[k][2]
            IN  Emit([tag |-> "message_row",
                      width |-> st.max_string_len - message_indent,
                      left |-> caught_line.s,
                      sep |-> IF caught_line.s = expected_line.s THEN "|" ELSE "#",
                      right |-> expected_line.s,
                      lmark |-> " ",
                      rmark |-> " "])]

\* The message rows with a separator that only tells whether both sides have the line.
MessageRows_SepByPresence(st, i) ==
    LET has_caught == i <= st.num_caught_exceptions
        has_expected == i <= Len(st.args)
        caught_ex == st.caught_exceptions[i]
        expected_ex == st.args[i]
        pairs == SplitString2(
            IF has_caught /\ caught_ex.type # <<>> THEN SV(caught_ex.message) ELSE NullSV,
            IF has_expected /\ expected_ex.type # <<>> THEN SV(expected_ex.message) ELSE NullSV)
    IN  [k \in 1..Len(pairs) |->
            LET caught_line == pairs[k][1]
                expected_line == pairs[k][2]
            IN  Emit([tag |-> "message_row",
                      width |-> st.max_string_len - message_indent,
                      left |-> caught_line.s,
                      sep |-> IF ~caught_line.null /\ ~expected_line.null THEN "|" ELSE "#",
                      right |-> expected_line.s,
                      lmark |-> IF ~caught_line.null THEN " " ELSE ".",
                      rmark |-> IF ~expected_line.null THEN " " ELSE "."])]

\* The message rows of index i (1-based) of the table: lines 701-721.
MessageRows(st, i) ==
    LET has_caught == i <= st.num_caught_exceptions
        has_expected == i <= Len(st.args)
        caught_ex == st.caught_exceptions[i]
        expected_ex == st.args[i]
        pairs == SplitString2(
            IF has_caught /\ caught_ex.type # <<>> THEN SV(caught_ex.message) ELSE NullSV,
            IF has_expected /\ expected_ex.type # <<>> THEN SV(expected_ex.message) ELSE NullSV)
    IN  [k \in 1..Len(pairs) |->
            LET caught_line == pairs[k][1]
                expected_line == pairs[k][2]
            IN  Emit([tag |-> "message_row",
                      width |-> st.max_string_len - message_indent,
                      left |-> caught_line.s,
                      sep |-> IF ~caught_line.null /\ ~expected_line.null /\ caught_line.s = expected_line.s
                              THEN "|" ELSE "#",
                      right |-> expected_line.s,
                      lmark |-> IF ~caught_line.null THEN " " ELSE ".",
                      rmark |-> IF ~expected_line.null THEN " " ELSE "."])]

\* The column (0-based, after the log prefix) at which a row of the table has its separator.
\* "        %-*s | %s" (line 650) and "        %-*.*s" followed by " | " or " # " (lines
\* 674-692): 8 spaces, the cell padded to width, a space.  "       %*s%c%-*.*s %c" (line 710):
\* 7 spaces, message_indent spaces, the marker, the line padded to width, a space.  printf
\* pads a shorter string and never cuts a longer one here.
SepColumn(line) ==
    IF line.tag = "message_row"
    THEN 7 + message_indent + 1 + Max(line.width, Len(line.left)) + 1
    ELSE 8 + Max(line.width, Len(line.left)) + 1

\* The table with the type row left out when both counts are equal and all type names match.
RECURSIVE TableBlocks_MessageOnly(_, _, _)
TableBlocks_MessageOnly(st, lo, hi) ==
    IF lo > hi THEN <<>>
    ELSE IF lo = hi
    THEN (IF /\ st.num_caught_exceptions = Len(st.args)
             /\ \A i \in 1..Len(st.args) : st.caught_exceptions[i].type = st.args[i].type
          THEN <<>> ELSE << TypeRow(st, lo) >>)
         \o MessageRows(st, lo)
    ELSE LET mid == (lo + hi) \div 2
         IN  TableBlocks_MessageOnly(st, lo, mid) \o TableBlocks_MessageOnly(st, mid + 1, hi)

\* The blocks lo..hi of the table, lines 660-722 (evaluated by halves).
RECURSIVE TableBlocks(_, _, _)
TableBlocks(st, lo, hi) ==
    IF lo > hi THEN <<>>
    ELSE IF lo = hi THEN << TypeRow(st, lo) >> \o MessageRows(st, lo)
    ELSE LET mid == (lo + hi) \div 2
         IN  TableBlocks(st, lo, mid) \o TableBlocks(st, mid + 1, hi)

\* The verdict with the early return for no expected exceptions placed before the test of
\* ran_without_exceptions.
MustThrowVerdict_EmptyFirst(stop_on_failure, ran_without_exceptions, st) ==
    LET num_expected_exceptions == Len(st.args)
        have_mismatch == st.have_mismatch \/ st.num_caught_exceptions # num_expected_exceptions
        n == Max(st.num_caught_exceptions, num_expected_exceptions)
        interrupt == IF stop_on_failure THEN << ThrowInterrupt >> ELSE <<>>
    IN  IF num_expected_exceptions = 0 THEN <<>>
        ELSE IF ran_without_exceptions THEN FailCheck("missing_exception_at") \o interrupt
        ELSE IF ~have_mismatch THEN <<>>
        ELSE FailCheck("incorrect_exception_at")
             \o << Emit([tag |-> "exception_header"]),
                   Emit([tag |-> "table_header", width |-> st.max_string_len,
                         left |-> Caught, right |-> Expected]) >>
             \o TableBlocks(st, 1, n)
             \o interrupt

\* The verdict with the counts compared by < instead of != (line 639).
MustThrowVerdict_OnlyFewer(stop_on_failure, ran_without_exceptions, st) ==
    LET num_expected_exceptions == Len(st.args)
        have_mismatch == st.have_mismatch \/ st.num_caught_exceptions < num_expected_exceptions
        n == Max(st.num_caught_exceptions, num_expected_exceptions)
        interrupt == IF stop_on_failure THEN << ThrowInterrupt >> ELSE <<>>
    IN  IF ran_without_exceptions THEN FailCheck("missing_exception_at") \o interrupt
        ELSE IF num_expected_exceptions = 0 THEN <<>>
        ELSE IF ~have_mismatch THEN <<>>
        ELSE FailCheck("incorrect_exception_at")
             \o << Emit([tag |-> "exception_header"]),
                   Emit([tag |-> "table_header", width |-> st.max_string_len,
                         left |-> Caught, right |-> Expected]) >>
             \o TableBlocks(st, 1, n)
             \o interrupt

\* The verdict without the comparison of the two counts (lines 639-640).
MustThrowVerdict_NoCountCheck(stop_on_failure, ran_without_exceptions, st) ==
    LET num_expected_exceptions == Len(st.args)
        n == Max(st.num_caught_exceptions, num_expected_exceptions)
        interrupt == IF stop_on_failure THEN << ThrowInterrupt >> ELSE <<>>
    IN  IF ran_without_exceptions THEN FailCheck("missing_exception_at") \o interrupt
        ELSE IF num_expected_exceptions = 0 THEN <<>>
        ELSE IF ~st.have_mismatch THEN <<>>
        ELSE FailCheck("incorrect_exception_at")
             \o << Emit([tag |-> "exception_header"]),
                   Emit([tag |-> "table_header", width |-> st.max_string_len,
                         left |-> Caught, right |-> Expected]) >>
             \o TableBlocks(st, 1, n)
             \o interrupt

\* The verdict without the early return for an empty list of expected exceptions (lines 635-636).
MustThrowVerdict_NoEmptyShortcut(stop_on_failure, ran_without_exceptions, st) ==
    LET num_expected_exceptions == Len(st.args)
        have_mismatch == st.have_mismatch \/ st.num_caught_exceptions # num_expected_exceptions
        n == Max(st.num_caught_exceptions, num_expected_exceptions)
        interrupt == IF stop_on_failure THEN << ThrowInterrupt >> ELSE <<>>
    IN  IF ran_without_exceptions THEN FailCheck("missing_exception_at") \o interrupt
        ELSE IF ~have_mismatch THEN <<>>
        ELSE FailCheck("incorrect_exception_at")
             \o << Emit([tag |-> "exception_header"]),
                   Emit([tag |-> "table_header", width |-> st.max_string_len,
                         left |-> Caught, right |-> Expected]) >>
             \o TableBlocks(st, 1, n)
             \o interrupt

\* The verdict without the throws of lines 628-629 and 725-726: a hard check goes on like a soft one.
MustThrowVerdict_NoInterrupt(stop_on_failure, ran_without_exceptions, st) ==
    LET num_expected_exceptions == Len(st.args)
        have_mismatch == st.have_mismatch \/ st.num_caught_exceptions # num_expected_exceptions
        n == Max(st.num_caught_exceptions, num_expected_exceptions)
    IN  IF ran_without_exceptions THEN FailCheck("missing_exception_at")
        ELSE IF num_expected_exceptions = 0 THEN <<>>
        ELSE IF ~have_mismatch THEN <<>>
        ELSE FailCheck("incorrect_exception_at")
             \o << Emit([tag |-> "exception_header"]),
                   Emit([tag |-> "table_header", width |-> st.max_string_len,
                         left |-> Caught, right |-> Expected]) >>
             \o TableBlocks(st, 1, n)

\* MustThrow::operator~ from line 613 on, given the locals the body run left in st.
MustThrowVerdict(stop_on_failure, ran_without_exceptions, st) ==
    LET num_expected_exceptions == Len(st.args)
        have_mismatch == st.have_mismatch \/ st.num_caught_exceptions # num_expected_exceptions
        n == Max(st.num_caught_exceptions, num_expected_exceptions)
        interrupt == IF stop_on_failure THEN << ThrowInterrupt >> ELSE <<>>
    IN  IF ran_without_exceptions THEN FailCheck("missing_exception_at") \o interrupt
        ELSE IF num_expected_exceptions = 0 THEN <<>>
        ELSE IF ~have_mismatch THEN <<>>
        ELSE FailCheck("incorrect_exception_at")
             \o << Emit([tag |-> "exception_header"]),
                   Emit([tag |-> "table_header", width |-> st.max_string_len,
                         left |-> Caught, right |-> Expected]) >>
             \o TableBlocks(st, 1, n)
             \o interrupt

\* The locals of MustThrow::operator~ before the body runs.
MustThrowLocals(args) ==
    [args |-> args, num_caught_exceptions |-> 0, max_string_len |-> initial_max_string_len,
     caught_exceptions |-> <<>>, have_mismatch |-> FALSE, exited |-> FALSE]

\* The locals after the body has run and thrown exc: the on_failure lambda, lines 557-610.
MustThrowCapture(exc, args) ==
    AnalyzeCurrentException("must_throw", exc, MustThrowLocals(args)).st

\* MustThrow::operator~ taking an InterruptTestException of the body for a body that returned.
MustThrow_InterruptIsReturn(stop_on_failure, body_result, args) ==
    LET path == RunWithCatchImpl(TRUE, body_result)
    IN  CASE path = "rethrow" -> MustThrowVerdict(stop_on_failure, TRUE, MustThrowLocals(args))
          [] path = "return" -> MustThrowVerdict(stop_on_failure, TRUE, MustThrowLocals(args))
          [] path = "return_false" -> MustThrowVerdict(stop_on_failure, FALSE, MustThrowLocals(args))
          [] path = "on_failure" ->
                LET st == MustThrowCapture(body_result.exc, args)
                IN  IF st.exited THEN << Exit2 >>
                    ELSE MustThrowVerdict(stop_on_failure, FALSE, st)

\* MustThrow::operator~, given what body() does and the expected exceptions: its effects.
MustThrow(stop_on_failure, body_result, args) ==
    LET path == RunWithCatchImpl(TRUE, body_result)
    IN  CASE path = "rethrow" -> << RethrowInterrupt >>
          [] path = "return" -> MustThrowVerdict(stop_on_failure, TRUE, MustThrowLocals(args))
          [] path = "return_false" -> MustThrowVerdict(stop_on_failure, FALSE, MustThrowLocals(args))
          [] path = "on_failure" ->
                LET st == MustThrowCapture(body_result.exc, args)
                IN  IF st.exited THEN << Exit2 >>
                    ELSE MustThrowVerdict(stop_on_failure, FALSE, st)

----------------------------------------------------------------------------
(* Test identities and the test map. *)

\* std::string_view's operator< on strings of character codes.
RECURSIVE StrLess(_, _)
StrLess(a, b) ==
    IF b = <<>> THEN FALSE
    ELSE IF a = <<>> THEN TRUE
    ELSE IF Head(a) # Head(b) THEN Head(a) < Head(b)
    ELSE StrLess(Tail(a), Tail(b))

\* A comparison of TestDesc that looks at the name before the line.
TestDescLess_NameFirst(a, b) ==
    IF a.file # b.file THEN StrLess(a.file, b.file)
    ELSE IF a.name # b.name THEN StrLess(a.name, b.name)
    ELSE a.line < b.line

\* The defaulted operator<=> of TestDesc: file, then line, then name.
TestDescLess(a, b) ==
    IF a.file # b.file THEN StrLess(a.file, b.file)
    ELSE IF a.line # b.line THEN a.line < b.line
    ELSE StrLess(a.name, b.name)

TestDesc(file, line, name) == [name |-> name, line |-> line, file |-> file]

\* The EM_TEST(...) definitions linked into the program.
TestDescs ==
    { TestDesc(<<1>>, 1, <<1, 1>>), TestDesc(<<1>>, 1, <<2>>), TestDesc(<<1>>, 2, <<1>>),
      TestDesc(<<1, 1>>, 1, <<1>>) }

\* register_test without the test of try_emplace's result.
HasTest_Never(m, desc) == FALSE

HasTest(m, desc) == \E i \in 1..Len(m) : m[i].desc = desc

\* std::map::try_emplace of a new key: the entries stay sorted by key.
TryEmplace(m, desc) ==
    LET before == SelectSeq(m, LAMBDA en : TestDescLess(en.desc, desc))
        after == SelectSeq(m, LAMBDA en : ~TestDescLess(en.desc, desc))
    IN  before \o << [desc |-> desc, func |-> 0] >> \o after

SetFunc(m, desc, f) == [i \in 1..Len(m) |-> IF m[i].desc = desc THEN [m[i] EXCEPT !.func = f] ELSE m[i]]

----------------------------------------------------------------------------
(* What test bodies do. *)

MsgA == <<"a">>
MsgAB == <<"a", NL, "b">>
MsgAC == <<"a", NL, "c">>

\* The exception objects a body throws and a check expects: two types with the same message,
\* one type with messages of one and of two lines, the latter differing in the second line.
Levels ==
    { [tid |-> "St13runtime_error", msg |-> MsgA],
      [tid |-> "St11logic_error", msg |-> MsgA],
      [tid |-> "St13runtime_error", msg |-> MsgAB],
      [tid |-> "St13runtime_error", msg |-> MsgAC] }

\* std::throw_with_nested(e): the typeid name of the object thrown.
Nested(tid) ==
    CASE tid = "St13runtime_error" -> "St17_Nested_exceptionISt13runtime_errorE"
      [] tid = "St11logic_error" -> "St17_Nested_exceptionISt11logic_errorE"

\* The chains of up to n levels: a foreign value or a plain exception, possibly wrapped
\* by std::throw_with_nested in further exceptions.
RECURSIVE ChainsUpTo(_)
ChainsUpTo(n) ==
    IF n = 0 THEN {}
    ELSE LET inner == ChainsUpTo(n - 1)
         IN  { <<Foreign>> }
             \cup { <<Known(l.tid, SV(l.msg))>> : l \in Levels }
             \cup UNION { { <<Known(Nested(l.tid), SV(l.msg))>> \o c : l \in Levels } : c \in inner }

\* A chain of n levels of the same exception.
DeepChain(n) == [i \in 1..n |-> Known(IF i < n THEN Nested("St11logic_error") ELSE "St11logic_error", SV(MsgA))]

\* A chain whose exception returns a null what(), and one whose what() is empty.
OddChains ==
    { <<Known("St13runtime_error", NullSV)>>, <<Known("St13runtime_error", SV(<<>>))>> }

\* "some long long message\nbarbar": its first line is longer than every type name.
MsgLong ==
    << "s","o","m","e"," ","l","o","n","g"," ","l","o","n","g"," ","m","e","s","s","a","g",
       "e",NL,"b","a","r","b","a","r" >>

\* Chains with that message: at the first level, and at a level past one expected exception.
LongChains ==
    { <<Known("St11logic_error", SV(MsgLong))>>,
      <<Known(Nested("St13runtime_error"), SV(MsgA)), Known("St11logic_error", SV(MsgLong))>> }

\* An object of a class that is no std::exception, thrown by std::throw_with_nested: it has
\* an exception nested in it.
NestedForeign == [tid |-> "St17_Nested_exceptionI1SE", what |-> NullSV, known |-> FALSE]

\* Chains with such an object, outermost and in the middle.
ForeignNestedChains ==
    { <<NestedForeign, Known("St13runtime_error", SV(MsgA))>>,
      <<Known(Nested("St11logic_error"), SV(MsgA)), NestedForeign, Known("St13runtime_error", SV(MsgAB))>> }

DeepChains == { DeepChain(max_num_caught_exceptions), DeepChain(max_num_caught_exceptions + 1) }

Chains == ChainsUpTo(MaxChain) \cup OddChains \cup LongChains \cup DeepChains

\* The expected exceptions of a must-throw check: objects derived from std::exception.
RECURSIVE PatternsUpTo(_)
PatternsUpTo(n) ==
    IF n = 0 THEN { <<>> }
    ELSE LET shorter == PatternsUpTo(n - 1)
         IN  shorter \cup UNION { { <<Arg(Known(l.tid, SV(l.msg)))>> \o p : l \in Levels }
                                  : p \in { q \in shorter : Len(q) = n - 1 } }

Patterns == PatternsUpTo(MaxPattern) \cup { << Arg(Known("St13runtime_error", SV(<<>>))) >> }

\* The chains and patterns the bodies of a whole suite use.
SuiteChains ==
    { <<Known("St13runtime_error", SV(MsgA))>>,
      <<Known(Nested("St11logic_error"), SV(MsgAB)), Foreign>>,
      <<Foreign>> }

SuitePatterns == { <<>>, << Arg(Known("St13runtime_error", SV(MsgA))) >> }

\* What the lambda of a boolean check can do.
ProbeResults(C) == { Returns(TRUE), Returns(FALSE), ThrowsInterrupt } \cup { Throws(c) : c \in C }
\* What the body of a must-throw check can do.
BodyResults(C) == { Returns(TRUE), ThrowsInterrupt } \cup { Throws(c) : c \in C }

----------------------------------------------------------------------------
(* The program. *)

NoStmt == [kind |-> "none", args |-> <<>>, stop |-> FALSE, res |-> Returns(TRUE)]
Stmt(kind, stop, res, args) == [kind |-> kind, args |-> args, stop |-> stop, res |-> res]

ReportTags == {"assertion_failed_at", "missing_exception_at", "incorrect_exception_at", "uncaught_exception"}

\* The failure reports among the effects evs: the tags of their first lines.
ReportsOf(evs) ==
    LET heads == SelectSeq(evs, LAMBDA ev : ev.e = "print" /\ ev.line.tag \in ReportTags)
    IN  [i \in 1..Len(heads) |-> heads[i].line.tag]

HasFail(evs) == \E i \in 1..Len(evs) : evs[i].e = "fail"

Init ==
    /\ pc = "static_init"
    /\ test_map = <<>>
    /\ next_func = 1
    /\ num_tests_ran = 0
    /\ fail_test = FALSE
    /\ fail_test_ptr = 0
    /\ failed_tests = <<>>
    /\ body_len = 0
    /\ stmt = 0
    /\ flight = NoFlight
    /\ exit_code = -1
    /\ summary = <<>>
    /\ last_stmt = NoStmt
    /\ events = <<>>
    /\ reports = 0
    /\ started = <<>>
    /\ outcome = <<>>
    /\ ended_by = "none"

\* ConstTestDesc::register_test: the initializer of one EM_TEST, run before main.
RegisterTest ==
    /\ pc = "static_init"
    /\ Len(test_map) < MaxTests
    /\ \E desc \in TestDescs :
          IF HasTest(test_map, desc)
          THEN /\ pc' = "exited"
               /\ exit_code' = 2
               /\ UNCHANGED <<test_map, next_func>>
          ELSE /\ test_map' = SetFunc(TryEmplace(test_map, desc), desc, next_func)
               /\ next_func' = next_func + 1
               /\ UNCHANGED <<pc, exit_code>>
    /\ UNCHANGED <<num_tests_ran, fail_test, fail_test_ptr, failed_tests, body_len, stmt, flight,
                   summary, last_stmt, events, reports, started, outcome, ended_by>>

\* RunTests treating an empty test map as a run without failures.
RunTestsBegin_EmptyPasses ==
    /\ pc = "static_init"
    /\ IF test_map = <<>>
       THEN /\ pc' = "returned"
            /\ exit_code' = 0
            /\ summary' = << <<"No", "tests", "to", "run">> >>
       ELSE /\ pc' = "loop"
            /\ UNCHANGED <<exit_code, summary>>
    /\ num_tests_ran' = 0
    /\ failed_tests' = <<>>
    /\ UNCHANGED <<test_map, next_func, fail_test, fail_test_ptr, body_len, stmt, flight,
                   last_stmt, events, reports, started, outcome, ended_by>>

\* RunTests up to the loop: lines 732-754.
RunTestsBegin ==
    /\ pc = "static_init"
    /\ IF test_map = <<>>
       THEN /\ pc' = "returned"
            /\ exit_code' = 1
            /\ summary' = << <<"No", "tests", "to", "run">> >>
       ELSE /\ pc' = "loop"
            /\ UNCHANGED <<exit_code, summary>>
    /\ num_tests_ran' = 0
    /\ failed_tests' = <<>>
    /\ UNCHANGED <<test_map, next_func, fail_test, fail_test_ptr, body_len, stmt, flight,
                   last_stmt, events, reports, started, outcome, ended_by>>

\* fail_test declared outside the loop: the value of the previous iteration survives.
FreshFailTest_Stale(old) == old

\* bool fail_test = false; at the top of the loop body, old being what the previous iteration left.
FreshFailTest(old) == FALSE

\* One iteration of the loop up to the call of the test function: lines 757-845.
BeginTest ==
    /\ pc = "loop"
    /\ num_tests_ran < Len(test_map)
    /\ num_tests_ran' = num_tests_ran + 1
    /\ fail_test' = FreshFailTest(fail_test)
    /\ fail_test_ptr' = num_tests_ran + 1
    /\ \E n \in 0..MaxBody : body_len' = n
    /\ stmt' = 0
    /\ flight' = NoFlight
    /\ last_stmt' = NoStmt
    /\ events' = <<>>
    /\ reports' = 0
    /\ started' = Append(started, test_map[num_tests_ran + 1].func)
    /\ outcome' = Append(outcome, "Running")
    /\ ended_by' = "none"
    /\ pc' = "body"
    /\ UNCHANGED <<test_map, next_func, failed_tests, exit_code, summary>>

\* The running test body executes its next statement s, whose effects are evs.
Exec(s, evs) ==
    /\ pc = "body"
    /\ flight = NoFlight
    /\ stmt < body_len
    /\ stmt' = stmt + 1
    /\ last_stmt' = s
    /\ events' = evs
    /\ reports' = reports + Len(ReportsOf(evs))
    /\ IF HasFail(evs)
       THEN \/ fail_test_ptr = num_tests_ran /\ fail_test' = TRUE
            \/ fail_test_ptr # num_tests_ran /\ fail_test' \in BOOLEAN
       ELSE fail_test' = fail_test
    /\ CASE Raised(evs) = "exit" -> pc' = "exited" /\ exit_code' = 2 /\ flight' = NoFlight
         [] Raised(evs) = "interrupt" -> flight' = Interrupt /\ UNCHANGED <<pc, exit_code>>
         [] Raised(evs) = "none" -> UNCHANGED <<pc, exit_code, flight>>
    /\ UNCHANGED <<test_map, next_func, num_tests_ran, fail_test_ptr, failed_tests, body_len,
                   summary, started, outcome, ended_by>>

\* A statement that is no check and throws nothing.
ExecPlain == Exec(Stmt("plain", FALSE, Returns(TRUE), <<>>), <<>>)

\* EM_CHECK(...) / EM_CHECK_SOFT(...).
ExecCheckOver(R) ==
    \E stop \in BOOLEAN, res \in R :
        Exec(Stmt("check", stop, res, <<>>), DetailAssert(stop, res))

ExecCheck == ExecCheckOver(ProbeResults(SuiteChains))

\* EM_MUST_THROW(...)(...) / EM_MUST_THROW_SOFT(...)(...), with body results over C and patterns P.
ExecMustThrowOver(C, P) ==
    \E stop \in BOOLEAN, res \in BodyResults(C), args \in P :
        Exec(Stmt("must_throw", stop, res, args), MustThrow(stop, res, args))

ExecMustThrow == ExecMustThrowOver(SuiteChains, SuitePatterns)

\* A statement outside any check throws: an exception, or InterruptTestException.
ExecThrowOver(R) ==
    /\ pc = "body"
    /\ flight = NoFlight
    /\ stmt < body_len
    /\ \E res \in R :
          /\ last_stmt' = Stmt("throw", FALSE, res, <<>>)
          /\ flight' = IF res.kind = "interrupt" THEN Interrupt ELSE Thrown(res.exc)
    /\ stmt' = stmt + 1
    /\ events' = <<>>
    /\ UNCHANGED <<pc, test_map, next_func, num_tests_ran, fail_test, fail_test_ptr, failed_tests,
                   body_len, exit_code, summary, reports, started, outcome, ended_by>>

ExecThrow == ExecThrowOver({ ThrowsInterrupt } \cup { Throws(c) : c \in SuiteChains })

\* The test function returns: RunWithCatchImpl returns, line 463.
BodyReturn ==
    /\ pc = "body"
    /\ flight = NoFlight
    /\ stmt = body_len
    /\ RunWithCatchImpl(FALSE, Returns(FALSE)) = "return"
    /\ pc' = "after_run"
    /\ ended_by' = "return"
    /\ last_stmt' = NoStmt
    /\ events' = <<>>
    /\ UNCHANGED <<test_map, next_func, num_tests_ran, fail_test, fail_test_ptr, failed_tests,
                   body_len, stmt, flight, exit_code, summary, reports, started, outcome>>

\* What the test function did, for the RunWithCatchImpl of RunTests.
FlightResult == IF flight.kind = "interrupt" THEN ThrowsInterrupt ELSE Throws(flight.exc)

\* The test function threw InterruptTestException: RunWithCatchImpl swallows it, lines 465-471.
CatchInterrupt ==
    /\ pc = "body"
    /\ flight # NoFlight
    /\ RunWithCatchImpl(FALSE, FlightResult) = "return_false"
    /\ flight' = NoFlight
    /\ pc' = "after_run"
    /\ ended_by' = "interrupt"
    /\ last_stmt' = NoStmt
    /\ events' = <<>>
    /\ UNCHANGED <<test_map, next_func, num_tests_ran, fail_test, fail_test_ptr, failed_tests,
                   body_len, stmt, exit_code, summary, reports, started, outcome>>

\* The on_failure lambda of RunTests without fail_test = true.
UncaughtException_NoFail(exc) ==
    << Flush, Emit([tag |-> "uncaught_exception"]) >> \o PrintCurrentException(exc)

\* The on_failure lambda of RunTests, lines 848-858: its effects.
UncaughtException(exc) ==
    << SetFail, Flush, Emit([tag |-> "uncaught_exception"]) >> \o PrintCurrentException(exc)

\* The test function threw something else: RunWithCatchImpl calls on_failure, lines 472-476.
CatchOther ==
    /\ pc = "body"
    /\ flight # NoFlight
    /\ RunWithCatchImpl(FALSE, FlightResult) = "on_failure"
    /\ LET evs == UncaughtException(flight.exc)
       IN  /\ events' = evs
           /\ fail_test' = (fail_test \/ HasFail(evs))
           /\ reports' = reports + Len(ReportsOf(evs))
    /\ flight' = NoFlight
    /\ pc' = "after_run"
    /\ ended_by' = "error"
    /\ last_stmt' = NoStmt
    /\ UNCHANGED <<test_map, next_func, num_tests_ran, fail_test_ptr, failed_tests,
                   body_len, stmt, exit_code, summary, started, outcome>>

\* The end of the scope without the Guard's destructor: fail_test_ptr keeps pointing at the
\* fail_test of the iteration that has ended.
ExitScope_NoGuard ==
    /\ pc = "after_run"
    /\ pc' = "scope_exited"
    /\ UNCHANGED <<test_map, next_func, num_tests_ran, fail_test, fail_test_ptr, failed_tests, body_len,
                   stmt, flight, exit_code, summary, last_stmt, events, reports, started, outcome,
                   ended_by>>

\* The scope of the run ends: ~Guard(), lines 830-833 and 860.
ExitScope ==
    /\ pc = "after_run"
    /\ fail_test_ptr' = 0
    /\ pc' = "scope_exited"
    /\ UNCHANGED <<test_map, next_func, num_tests_ran, fail_test, failed_tests, body_len, stmt, flight,
                   exit_code, summary, last_stmt, events, reports, started, outcome, ended_by>>

\* The rest of the iteration: lines 862-883.
FinishTest ==
    /\ pc = "scope_exited"
    /\ failed_tests' = IF fail_test THEN Append(failed_tests, num_tests_ran) ELSE failed_tests
    /\ outcome' = [outcome EXCEPT ![num_tests_ran] = IF fail_test THEN "Failed" ELSE "Passed"]
    /\ pc' = "loop"
    /\ UNCHANGED <<test_map, next_func, num_tests_ran, fail_test, fail_test_ptr, body_len, stmt, flight,
                   exit_code, summary, last_stmt, events, reports, started, ended_by>>

\* "tests" whatever the number is.
Plural_Always(n) == "tests"

\* "test%s" with num_tests_total == 1 ? "" : "s", lines 888 and 898.
Plural(n) == IF n = 1 THEN "test" ELSE "tests"

\* The summary with the total printed as the number of passed tests.
LogSummary_PassedTotal(num_tests_total, failed) ==
    IF failed = <<>>
    THEN << <<"All", num_tests_total, Plural(num_tests_total), "passed">> >>
    ELSE << <<"Failed", "tests">> >>
         \o [i \in 1..Len(failed) |-> <<"at", test_map[failed[i]].desc>>]
         \o << <<"Ran", num_tests_total, Plural(num_tests_total),
                 num_tests_total, "passed", Len(failed), "FAILED">> >>

\* The summary RunTests logs, lines 885-900.
LogSummary(num_tests_total, failed) ==
    IF failed = <<>>
    THEN << <<"All", num_tests_total, Plural(num_tests_total), "passed">> >>
    ELSE << <<"Failed", "tests">> >>
         \o [i \in 1..Len(failed) |-> <<"at", test_map[failed[i]].desc>>]
         \o << <<"Ran", num_tests_total, Plural(num_tests_total),
                 num_tests_total - Len(failed), "passed", Len(failed), "FAILED">> >>

\* RunTests returning the number of failed tests.
ExitCode_Count(failed) == Len(failed)

\* The value RunTests returns, line 902.
ExitCode(failed) == IF failed = <<>> THEN 0 ELSE 1

\* After the loop: lines 885-902.
RunTestsEnd ==
    /\ pc = "loop"
    /\ num_tests_ran = Len(test_map)
    /\ summary' = LogSummary(Len(test_map), failed_tests)
    /\ exit_code' = ExitCode(failed_tests)
    /\ pc' = "returned"
    /\ UNCHANGED <<test_map, next_func, num_tests_ran, fail_test, fail_test_ptr, failed_tests,
                   body_len, stmt, flight, last_stmt, events, reports, started, outcome, ended_by>>

Next ==
    \/ RegisterTest
    \/ RunTestsBegin
    \/ BeginTest
    \/ ExecPlain
    \/ ExecCheck
    \/ ExecMustThrow
    \/ ExecThrow
    \/ BodyReturn
    \/ CatchInterrupt
    \/ CatchOther
    \/ ExitScope
    \/ FinishTest
    \/ RunTestsEnd

Spec == Init /\ [][Next]_vars

----------------------------------------------------------------------------
(* The runner under fairness: the process is one thread that keeps executing until main returns
   or std::exit is called, and every test body is a finite list of statements. The statements
   are boolean checks without exception chains, and throws of the interrupt or a foreign value. *)

ExecCheckNoThrow == ExecCheckOver({ Returns(TRUE), Returns(FALSE), ThrowsInterrupt })

ExecThrowForeign == ExecThrowOver({ ThrowsInterrupt, Throws(<<Foreign>>) })

NextFair ==
    \/ RegisterTest
    \/ RunTestsBegin
    \/ BeginTest
    \/ ExecPlain
    \/ ExecCheckNoThrow
    \/ ExecThrowForeign
    \/ BodyReturn
    \/ CatchInterrupt
    \/ CatchOther
    \/ ExitScope
    \/ FinishTest
    \/ RunTestsEnd

FairSpec == Init /\ [][NextFair]_vars /\ WF_vars(NextFair)

----------------------------------------------------------------------------
(* One must-throw check, over every chain and pattern of the bounds: the    *)
(* program has registered one test and RunTests has called its function,    *)
(* whose first statement is the check; the statements after it are plain.   *)

InitMustThrow ==
    /\ pc = "body"
    /\ test_map = << [desc |-> TestDesc(<<1>>, 1, <<2>>), func |-> 1] >>
    /\ next_func = 2
    /\ num_tests_ran = 1
    /\ fail_test = FALSE
    /\ fail_test_ptr = 1
    /\ failed_tests = <<>>
    /\ body_len \in 1..2
    /\ stmt = 0
    /\ flight = NoFlight
    /\ exit_code = -1
    /\ summary = <<>>
    /\ last_stmt = NoStmt
    /\ events = <<>>
    /\ reports = 0
    /\ started = <<1>>
    /\ outcome = <<"Running">>
    /\ ended_by = "none"

ExecMustThrowFirst == stmt = 0 /\ ExecMustThrowOver(Chains, Patterns)

ExecPlainAfter == stmt > 0 /\ ExecPlain

NextMustThrow ==
    \/ ExecMustThrowFirst
    \/ ExecPlainAfter
    \/ BodyReturn
    \/ CatchInterrupt
    \/ ExitScope
    \/ FinishTest
    \/ RunTestsEnd

SpecMustThrow == InitMustThrow /\ [][NextMustThrow]_vars

----------------------------------------------------------------------------
(* Deep chains: the one registered test runs a body whose checks and throws  *)
(* work on a chain of 128 levels and on one of 129 levels.                   *)

ExecCheckDeep == ExecCheckOver({ Throws(c) : c \in DeepChains })

ExecMustThrowDeep == ExecMustThrowOver(DeepChains, SuitePatterns)

ExecThrowDeep == ExecThrowOver({ Throws(c) : c \in DeepChains })

NextDeep ==
    \/ ExecPlain
    \/ ExecCheckDeep
    \/ ExecMustThrowDeep
    \/ ExecThrowDeep
    \/ BodyReturn
    \/ CatchInterrupt
    \/ CatchOther
    \/ ExitScope
    \/ FinishTest
    \/ RunTestsEnd

SpecDeep == InitMustThrow /\ [][NextDeep]_vars

----------------------------------------------------------------------------
(* AnalyzeCurrentException with any callback: the first statement of the    *)
(* one registered test throws a chain, catches it and calls                 *)
(* AnalyzeCurrentException with a callback that returns true at its call    *)
(* number true_on (never for 0); the statements after it are plain.         *)

AnalyzeChains == ChainsUpTo(MaxChain) \cup ForeignNestedChains

\* The calls of the callback in order, then the value AnalyzeCurrentException returns.
AnalyzeEffects(exc, true_on) ==
    LET r == AnalyzeCurrentException("probe", exc, [exited |-> FALSE, calls |-> <<>>, true_on |-> true_on])
    IN  [i \in 1..Len(r.st.calls) |->
            [e |-> "call", type |-> r.st.calls[i].type, message |-> r.st.calls[i].message]]
        \o << [value |-> r.ret, e |-> "return"] >>

ExecAnalyzeFirst ==
    /\ stmt = 0
    /\ \E exc \in AnalyzeChains, true_on \in 0..(MaxChain + 1) :
          Exec(Stmt("analyze", FALSE, Throws(exc), << true_on >>), AnalyzeEffects(exc, true_on))

NextAnalyze ==
    \/ ExecAnalyzeFirst
    \/ ExecPlainAfter
    \/ BodyReturn
    \/ ExitScope
    \/ FinishTest
    \/ RunTestsEnd

SpecAnalyze == InitMustThrow /\ [][NextAnalyze]_vars

----------------------------------------------------------------------------
(* The program built with EM_MINITEST_EXCEPTIONS = 0: nothing throws, the   *)
(* must-throw check does not exist, and a test body is made of plain        *)
(* statements and boolean checks.                                           *)

ExecCheckNoExceptions ==
    \E stop \in BOOLEAN, value \in BOOLEAN :
        Exec(Stmt("check", stop, Returns(value), <<>>), DetailAssertNoExceptions(stop, Returns(value)))

NextNoExceptions ==
    \/ RegisterTest
    \/ RunTestsBegin
    \/ BeginTest
    \/ ExecPlain
    \/ ExecCheckNoExceptions
    \/ BodyReturn
    \/ ExitScope
    \/ FinishTest
    \/ RunTestsEnd

SpecNoExceptions == Init /\ [][NextNoExceptions]_vars

----------------------------------------------------------------------------
(* The depth boundary of the must-throw check: the one registered test runs *)
(* must-throw checks on chains of 127 to 130 levels, against no expected    *)
(* exception, one, and as many as the chain has levels.                     *)

\* The expected exceptions that match DeepChain(n).
DeepPattern(n) == [i \in 1..n |-> Arg(Known("St11logic_error", SV(MsgA)))]

BoundaryChains ==
    { DeepChain(max_num_caught_exceptions + k) : k \in {-1, 0, 1, 2} }

BoundaryPatterns ==
    { <<>>, DeepPattern(1), DeepPattern(max_num_caught_exceptions),
      DeepPattern(max_num_caught_exceptions + 1) }

ExecMustThrowBoundary == ExecMustThrowOver(BoundaryChains, BoundaryPatterns)

NextBoundary ==
    \/ ExecPlain
    \/ ExecMustThrowBoundary
    \/ BodyReturn
    \/ CatchInterrupt
    \/ ExitScope
    \/ FinishTest
    \/ RunTestsEnd

SpecBoundary == InitMustThrow /\ [][NextBoundary]_vars

----------------------------------------------------------------------------
(* Properties. *)

\* A step in which the running body executes a statement.
StmtStep == pc = "body" /\ flight = NoFlight /\ stmt' = stmt + 1

\* The lambda of the boolean check s returned false or let an exception other than the interrupt escape.
CheckFails(s) ==
    /\ s.kind = "check"
    /\ \/ s.res.kind = "throw"
       \/ s.res.kind = "return" /\ ~s.res.value

NoOutput(evs) == \A i \in 1..Len(evs) : evs[i].e \notin {"print", "fail"}

InTest == pc \in {"body", "after_run", "scope_exited"}

\* C1: a failing soft boolean check marks the test failed, emits one report and lets the next
\* statement run; a failing hard boolean check marks the test failed, emits one report and
\* raises the interrupt, after which no statement of that body executes and the body is left;
\* a test with a failure report ends Failed.
C1_SoftHardBooleanCheck ==
    [][ /\ (StmtStep /\ CheckFails(last_stmt') /\ ~last_stmt'.stop)
            => (fail_test' /\ reports' = reports + 1 /\ pc' = "body" /\ flight' = NoFlight)
        /\ (StmtStep /\ CheckFails(last_stmt') /\ last_stmt'.stop)
            => (fail_test' /\ reports' = reports + 1 /\ pc' = "body" /\ flight' = Interrupt)
        /\ (pc = "body" /\ flight # NoFlight)
            => (stmt' = stmt /\ body_len' = body_len /\ pc' = "after_run")
        /\ (pc \in {"after_run", "scope_exited"}) => stmt' = stmt
        /\ (pc = "scope_exited" /\ reports > 0) => outcome'[num_tests_ran] = "Failed"
      ]_vars

\* The hard check of 'soft failing check; hard failing check; statement' has just failed:
\* two reports, two statements executed, the third will not run.
C1_Witness ==
    /\ pc = "body"
    /\ flight = Interrupt
    /\ last_stmt = Stmt("check", TRUE, Returns(FALSE), <<>>)
    /\ reports = 2
    /\ fail_test
    /\ stmt = 2
    /\ body_len = 3

\* C2: a test ends Failed if and only if a check recorded a failure during its body or an
\* error other than the interrupt escaped the body, otherwise Passed; the failure flag is set
\* exactly by those events and nothing resets it before the test ends.
C2_FinalOutcome ==
    /\ [](pc \in {"after_run", "scope_exited"} => (fail_test <=> reports > 0))
    /\ []((pc = "loop" /\ num_tests_ran >= 1)
            => /\ outcome[num_tests_ran] \in {"Passed", "Failed"}
               /\ outcome[num_tests_ran] = "Failed" <=> (reports > 0 \/ ended_by = "error"))
    /\ [][ /\ StmtStep => (fail_test' <=> (fail_test \/ HasFail(events')))
           /\ StmtStep => (reports' > reports <=> HasFail(events'))
           /\ (pc = "body" /\ flight.kind = "throw") => (fail_test' /\ reports' = reports + 1)
           /\ (pc = "body" /\ flight.kind = "interrupt") => (fail_test' = fail_test /\ reports' = reports)
           /\ (pc = "body" /\ pc' = "after_run" /\ flight = NoFlight)
                => (fail_test' = fail_test /\ reports' = reports)
           /\ (InTest /\ fail_test) => fail_test'
           /\ pc = "scope_exited" => outcome'[num_tests_ran] = (IF fail_test THEN "Failed" ELSE "Passed")
         ]_vars

\* A check passes after an earlier soft failure: the flag is still set.
C2_Witness ==
    /\ pc = "body"
    /\ last_stmt = Stmt("check", TRUE, Returns(TRUE), <<>>)
    /\ fail_test
    /\ reports = 1
    /\ stmt = 2

\* C3: a body ended by the interrupt with no failure recorded gives a Passed test, no report
\* and no entry in failed_tests; a boolean check whose lambda raises the interrupt records
\* nothing and lets the interrupt through, and the runner swallows it without recording anything.
C3_InterruptIsNotFailure ==
    /\ []((pc = "loop" /\ num_tests_ran >= 1 /\ ended_by = "interrupt" /\ reports = 0)
            => /\ outcome[num_tests_ran] = "Passed"
               /\ \A i \in 1..Len(failed_tests) : failed_tests[i] # num_tests_ran)
    /\ [][ /\ (StmtStep /\ last_stmt'.kind = "check" /\ last_stmt'.res.kind = "interrupt")
                => /\ NoOutput(events')
                   /\ fail_test' = fail_test
                   /\ reports' = reports
                   /\ flight' = Interrupt
           /\ (pc = "body" /\ flight = Interrupt)
                => /\ fail_test' = fail_test
                   /\ reports' = reports
                   /\ NoOutput(events')
                   /\ ended_by' = "interrupt"
         ]_vars

\* The lambda of a boolean check raised the interrupt as the first statement of a longer body,
\* and the test ended Passed.
C3_Witness ==
    /\ pc = "loop"
    /\ ended_by = "interrupt"
    /\ reports = 0
    /\ stmt = 1
    /\ body_len > 1
    /\ outcome[num_tests_ran] = "Passed"
    /\ failed_tests = <<>>

\* C4: when RunTests returns for a non-empty test map, every test has ended, the value is 0
\* if and only if every test Passed, and 1 if and only if some test Failed.
C4_ExitStatus ==
    (pc = "returned" /\ test_map # <<>>)
        => /\ Len(outcome) = Len(test_map)
           /\ \A i \in 1..Len(outcome) : outcome[i] \in {"Passed", "Failed"}
           /\ exit_code = 0 <=> (\A i \in 1..Len(outcome) : outcome[i] = "Passed")
           /\ exit_code = 1 <=> (\E i \in 1..Len(outcome) : outcome[i] = "Failed")

\* RunTests has returned 1 after two tests failed.
C4_Witness ==
    /\ pc = "returned"
    /\ exit_code = 1
    /\ Len(outcome) = 2
    /\ outcome[1] = "Failed"
    /\ outcome[2] = "Failed"

SuiteCompleted ==
    /\ pc = "returned"
    /\ Len(outcome) = Len(test_map)
    /\ \A i \in 1..Len(outcome) : outcome[i] \in {"Passed", "Failed"}

\* C5: unless the process exits in InternalError, RunTests eventually returns with every
\* registered test Passed or Failed; an interrupt raised in the body of a test is swallowed by
\* the runner, which ends that test only and leaves the loop ready for the next test.
C5_SuiteCompletes ==
    /\ <>((pc = "exited" /\ exit_code = 2) \/ SuiteCompleted)
    /\ [][ (pc = "body" /\ flight = Interrupt)
              => /\ pc' = "after_run"
                 /\ ended_by' = "interrupt"
                 /\ flight' = NoFlight
                 /\ num_tests_ran' = num_tests_ran
                 /\ test_map' = test_map
                 /\ fail_test' = fail_test
         ]_vars

\* The first of two tests was ended by an interrupt after one of its three statements, and has Passed.
C5_Witness ==
    /\ pc = "loop"
    /\ ended_by = "interrupt"
    /\ num_tests_ran = 1
    /\ Len(test_map) = 2
    /\ stmt = 1
    /\ body_len = 3
    /\ outcome = <<"Passed">>

\* The number of exceptions the lines of evs show.
ChainLines(evs) ==
    Len(SelectSeq(evs, LAMBDA ev : ev.e = "print" /\ ev.line.tag \in {"type", "unknown_exception"}))

\* C6: when an exception other than the interrupt leaves a test body, the runner marks the test
\* failed, prints one uncaught-exception report showing every level of the chain once, ends the
\* test there, and the test is Failed while the loop is ready for the next test.
C6_UncaughtPropagation ==
    /\ [][ (pc = "body" /\ flight.kind = "throw")
              => /\ fail_test'
                 /\ reports' = reports + 1
                 /\ ReportsOf(events') = <<"uncaught_exception">>
                 /\ ChainLines(events') = Len(flight.exc)
                 /\ pc' = "after_run"
                 /\ ended_by' = "error"
                 /\ flight' = NoFlight
                 /\ stmt' = stmt
                 /\ num_tests_ran' = num_tests_ran
         ]_vars
    /\ []((pc = "loop" /\ ended_by = "error")
            => /\ outcome[num_tests_ran] = "Failed"
               /\ failed_tests # <<>>
               /\ failed_tests[Len(failed_tests)] = num_tests_ran
               /\ fail_test_ptr = 0
               /\ flight = NoFlight)

\* A nested exception around a foreign value left the first statement of the first of two tests.
C6_Witness ==
    /\ pc = "loop"
    /\ ended_by = "error"
    /\ num_tests_ran = 1
    /\ Len(test_map) = 2
    /\ outcome = <<"Failed">>
    /\ ChainLines(events) = 2
    /\ stmt = 1
    /\ body_len = 2

\* C7: every test starts with the failure flag clear and no report, whatever the tests before
\* it did; the outcome of an ended test never changes; a test with no failure of its own
\* Passes also after a Failed test.
C7_Isolation ==
    /\ [][ /\ (pc = "loop" /\ pc' = "body")
                => (~fail_test' /\ reports' = 0 /\ flight' = NoFlight /\ fail_test_ptr' = num_tests_ran')
           /\ \A i \in 1..Len(outcome) : outcome[i] # "Running" => outcome'[i] = outcome[i]
         ]_vars
    /\ []((pc = "loop" /\ num_tests_ran >= 2 /\ outcome[num_tests_ran - 1] = "Failed"
              /\ reports = 0 /\ ended_by # "error")
            => outcome[num_tests_ran] = "Passed")

\* The second test has Passed after the first Failed.
C7_Witness ==
    /\ pc = "loop"
    /\ num_tests_ran = 2
    /\ outcome = <<"Failed", "Passed">>
    /\ failed_tests = <<1>>

\* a comes before b in the lexicographic order of strings of character codes.
SeqBefore(a, b) ==
    \E k \in 1..Len(b) :
        /\ Len(a) >= k - 1
        /\ \A j \in 1..(k - 1) : a[j] = b[j]
        /\ (Len(a) = k - 1 \/ a[k] < b[k])

\* Identity a comes before identity b: by file, then by line, then by name.
IdentityBefore(a, b) ==
    \/ SeqBefore(a.file, b.file)
    \/ a.file = b.file /\ a.line < b.line
    \/ a.file = b.file /\ a.line = b.line /\ SeqBefore(a.name, b.name)

\* The identity under which the test function f was registered.
DescOf(f) == test_map[CHOOSE i \in 1..Len(test_map) : test_map[i].func = f].desc

\* C8: the tests are started in ascending identity order (file, then line, then name), one at a
\* time, each at most once and, when RunTests returns, each registered test exactly once; a
\* started test is never started again or reordered.
C8_RunOrder ==
    /\ [](\A i, j \in 1..Len(started) :
              i < j => IdentityBefore(DescOf(started[i]), DescOf(started[j])))
    /\ []((pc = "returned" /\ test_map # <<>>)
            => { started[i] : i \in 1..Len(started) } = { test_map[i].func : i \in 1..Len(test_map) })
    /\ [](\A i \in 1..Len(outcome) : outcome[i] = "Running" => (i = Len(outcome) /\ InTest))
    /\ [](Len(started) = Len(outcome) /\ Len(started) = num_tests_ran)
    /\ [][ /\ Len(started') >= Len(started)
           /\ SubSeq(started', 1, Len(started)) = started
           /\ Len(started') > Len(started) => \A i \in 1..Len(outcome) : outcome[i] \in {"Passed", "Failed"}
         ]_vars

\* Two tests ran, the one registered second first: same file, lines 1 and 2, the names in the
\* opposite order.
C8_Witness ==
    /\ pc = "returned"
    /\ started = <<2, 1>>
    /\ DescOf(2) = TestDesc(<<1>>, 1, <<2>>)
    /\ DescOf(1) = TestDesc(<<1>>, 2, <<1>>)

\* The must-throw check executed last caught a chain (the process did not exit).
MustThrowCaught ==
    /\ last_stmt.kind = "must_throw"
    /\ last_stmt.res.kind = "throw"
    /\ pc # "exited"

\* The chain the check executed last captured.
Captured == MustThrowCapture(last_stmt.res.exc, last_stmt.args).caught_exceptions

\* C9: with expected exceptions given, the check records no failure if and only if the
\* captured chain and the pattern have the same length and equal type names and messages at
\* every index.
C9_PatternComparison ==
    (MustThrowCaught /\ last_stmt.args # <<>>)
        => LET args == last_stmt.args
               same == /\ Len(Captured) = Len(args)
                       /\ \A i \in 1..Len(args) :
                             /\ Captured[i].type = args[i].type
                             /\ Captured[i].message = args[i].message
           IN  /\ same <=> (events = <<>> /\ ~fail_test /\ reports = 0 /\ flight = NoFlight)
               /\ ~same <=> (HasFail(events) /\ fail_test /\ reports = 1
                             /\ ReportsOf(events) = <<"incorrect_exception_at">>)

\* Two exceptions were expected, only the first was thrown, and the check has failed.
C9_Witness ==
    /\ MustThrowCaught
    /\ Len(last_stmt.args) = 2
    /\ Len(last_stmt.res.exc) = 1
    /\ Captured[1] = last_stmt.args[1]
    /\ fail_test
    /\ ReportsOf(events) = <<"incorrect_exception_at">>

\* C10: with no expected exception, a check whose body throws anything but the interrupt
\* records no failure and prints nothing; unless the chain is deeper than the capture limit the
\* check returns and the body goes on; a foreign value is captured as one element without
\* type name.
C10_EmptyPattern ==
    (last_stmt.kind = "must_throw" /\ last_stmt.res.kind = "throw" /\ last_stmt.args = <<>>)
        => /\ NoOutput(events)
           /\ ~fail_test
           /\ reports = 0
           /\ Len(last_stmt.res.exc) <= max_num_caught_exceptions
                => (events = <<>> /\ pc = "body" /\ flight = NoFlight)
           /\ last_stmt.res.exc = <<Foreign>>
                => Captured = << [type |-> <<>>, message |-> <<>>] >>

\* A hard check without expected exceptions has passed on a body that threw a foreign value.
C10_Witness ==
    /\ last_stmt = Stmt("must_throw", TRUE, Throws(<<Foreign>>), <<>>)
    /\ pc = "body"
    /\ flight = NoFlight
    /\ ~fail_test
    /\ stmt = 1

\* The check executed last has passed: no effect at all, and the body goes on.
MustThrowPassed ==
    /\ events = <<>>
    /\ ~fail_test
    /\ reports = 0
    /\ flight = NoFlight
    /\ pc = "body"

\* The typeid name of the object e that std::throw_with_nested(e) wrapped.
Unnested(tid) ==
    CASE tid = "St17_Nested_exceptionISt13runtime_errorE" -> "St13runtime_error"
      [] tid = "St17_Nested_exceptionISt11logic_errorE" -> "St11logic_error"
      [] OTHER -> tid

\* The expected exceptions a user lists for the chain exc: the objects that were thrown and
\* passed to std::throw_with_nested, outermost first.
PatternBuiltFrom(exc) == [i \in 1..Len(exc) |-> Arg(Known(Unnested(exc[i].tid), exc[i].what))]

\* C11: a check whose expected exceptions are the elements of the chain it captures (same type
\* names and messages, outermost first) passes; so does a check that lists, for a chain of
\* nested exceptions, the exception objects that were thrown, in that order.
C11_RoundTrip ==
    /\ (MustThrowCaught /\ last_stmt.args # <<>> /\ last_stmt.args = Captured) => MustThrowPassed
    /\ (/\ MustThrowCaught
        /\ \A i \in 1..Len(last_stmt.res.exc) : last_stmt.res.exc[i].known
        /\ last_stmt.args = PatternBuiltFrom(last_stmt.res.exc))
          => (MustThrowPassed /\ last_stmt.args = Captured)

\* A logic_error thrown with a runtime_error nested in it was checked against
\* (logic_error, runtime_error), and the check has passed.
C11_Witness ==
    /\ last_stmt.kind = "must_throw"
    /\ last_stmt.res = Throws(<< Known(Nested("St11logic_error"), SV(MsgA)),
                                 Known("St13runtime_error", SV(MsgA)) >>)
    /\ last_stmt.args = << Arg(Known("St11logic_error", SV(MsgA))),
                           Arg(Known("St13runtime_error", SV(MsgA))) >>
    /\ MustThrowPassed
    /\ stmt = 1

\* The typeid name whose readable name is type.
TidOf(type) ==
    CASE type = StdRuntimeError -> "St13runtime_error"
      [] type = StdLogicError -> "St11logic_error"

\* A chain whose capture is the element sequence p: the exceptions of p, each but the last
\* thrown by std::throw_with_nested.
ChainFor(p) ==
    [i \in 1..Len(p) |->
        Known(IF i < Len(p) THEN Nested(TidOf(p[i].type)) ELSE TidOf(p[i].type), SV(p[i].message))]

\* C12: comparing the captured sequence A against the expected sequence B fails exactly when
\* comparing B, captured from a chain, against A as the expected sequence fails (A and B not
\* empty).
C12_Symmetry ==
    (MustThrowCaught /\ last_stmt.args # <<>>)
        => /\ MustThrowCapture(ChainFor(last_stmt.args), Captured).caught_exceptions = last_stmt.args
           /\ HasFail(events)
                <=> HasFail(MustThrow(last_stmt.stop, Throws(ChainFor(last_stmt.args)), Captured))

\* A chain of two exceptions was checked against its first exception alone, and the check has
\* failed (as the check of that one exception against the two does).
C12_Witness ==
    /\ MustThrowCaught
    /\ Len(last_stmt.res.exc) = 2
    /\ Len(last_stmt.args) = 1
    /\ Captured[1] = last_stmt.args[1]
    /\ HasFail(events)
    /\ HasFail(MustThrow(last_stmt.stop, Throws(ChainFor(last_stmt.args)), Captured))

\* The lines of the table of a must-throw check among the effects evs.
TableLines(evs) ==
    SelectSeq(evs, LAMBDA ev : ev.e = "print"
                               /\ ev.line.tag \in {"exception_header", "table_header", "type_row", "message_row"})

\* C13: a must-throw check whose body returns records one 'Missing exception' failure and sets
\* the failure flag of the test, with and without expected exceptions, and prints no table;
\* the hard check then throws the interrupt, the soft one returns.
C13_MissingError ==
    (last_stmt.kind = "must_throw" /\ last_stmt.res.kind = "return")
        => /\ ReportsOf(events) = <<"missing_exception_at">>
           /\ HasFail(events)
           /\ fail_test
           /\ reports = 1
           /\ TableLines(events) = <<>>
           /\ pc = "body"
           /\ flight = (IF last_stmt.stop THEN Interrupt ELSE NoFlight)

\* A soft check without expected exceptions has failed on a body that threw nothing.
C13_Witness ==
    /\ last_stmt = Stmt("must_throw", FALSE, Returns(TRUE), <<>>)
    /\ ReportsOf(events) = <<"missing_exception_at">>
    /\ fail_test
    /\ flight = NoFlight
    /\ stmt = 1

\* The type rows among the effects evs.
TypeRows(evs) == SelectSeq(evs, LAMBDA ev : ev.e = "print" /\ ev.line.tag = "type_row")

\* The captured chain and the expected exceptions of the check executed last have the same
\* length and the same type name at every index.
TypesMatch ==
    LET cap == Captured
    IN  /\ Len(cap) = Len(last_stmt.args)
        /\ \A i \in 1..Len(last_stmt.args) : cap[i].type = last_stmt.args[i].type

\* The check executed last has reported 'Incorrect exception' and printed its table.
MustThrowMismatch ==
    /\ MustThrowCaught
    /\ ReportsOf(events) = <<"incorrect_exception_at">>

\* C14: the table of a mismatch is printed without type rows (message rows only) if and only
\* if the captured chain and the expected exceptions have the same length and equal type names
\* at every index; otherwise it has a type row for every index.
C14_PresentationMode ==
    MustThrowMismatch
        => /\ TypesMatch <=> TypeRows(events) = <<>>
           /\ ~TypesMatch => Len(TypeRows(events)) = Max(Len(Captured), Len(last_stmt.args))

\* C15: a mismatch between a chain and expected exceptions of more than one element each, or
\* with a differing type name, is printed in the full format: the table starts with a type
\* row and has one type row per index showing both type names, also when both sides have the
\* same length and equal type names.
C15_FullFormatWithNesting ==
    MustThrowMismatch
        => LET rows == TypeRows(events)
               args == last_stmt.args
               cap == Captured
               n == Max(Len(cap), Len(args))
           IN  ((Len(cap) > 1 /\ Len(args) > 1) \/ ~TypesMatch)
                 => /\ Len(rows) = n
                    /\ TableLines(events)[3].line.tag = "type_row"
                    /\ \A i \in 1..n :
                          /\ rows[i].line.right = (IF i <= Len(args) THEN args[i].type ELSE None6)
                          /\ rows[i].line.left =
                               (IF i > Len(cap) THEN None6
                                ELSE IF cap[i].type = <<>> THEN Unknown9 ELSE cap[i].type)

\* Two nested exceptions were checked against two expected exceptions of the same types, the
\* messages differ, and the table has two type rows.
C15_Witness ==
    /\ MustThrowMismatch
    /\ Len(Captured) = 2
    /\ Len(last_stmt.args) = 2
    /\ TypesMatch
    /\ Len(TypeRows(events)) = 2

\* main has called RunTests and no test was registered.
RanEmptySuite == test_map = <<>> /\ pc # "static_init"

NothingStarted ==
    /\ started = <<>>
    /\ outcome = <<>>
    /\ failed_tests = <<>>
    /\ num_tests_ran = 0
    /\ ~fail_test

\* C16 as claimed: RunTests on an empty test map ends in InternalError, exit code 2, with no
\* test started and no failure recorded.
C16_EmptyIsInternalError ==
    RanEmptySuite => (pc = "exited" /\ exit_code = 2 /\ NothingStarted)

\* C16 as amended: RunTests on an empty test map prints 'No tests to run' and returns 1, the
\* exit code of a run with failed tests, not the exit code 2 of InternalError; no test is
\* started and no failure is recorded.
C16_EmptyReturnsOne ==
    RanEmptySuite
        => /\ pc = "returned"
           /\ exit_code = 1
           /\ exit_code = ExitCode(<<1>>)
           /\ summary = << <<"No", "tests", "to", "run">> >>
           /\ NothingStarted

\* RunTests has returned 1 for an empty test map.
C16_Witness ==
    /\ RanEmptySuite
    /\ pc = "returned"
    /\ exit_code = 1
    /\ summary # <<>>

\* C17: registering a test under an identity (file, line, name) that is already registered
\* exits the process with code 2 before any test has started; the test map never holds two
\* tests of the same identity, a registration never changes an entry that is already there,
\* and the exit leaves the map as it was.
C17_DuplicateIdentity ==
    /\ [](\A i, j \in 1..Len(test_map) :
              i # j => (test_map[i].desc # test_map[j].desc /\ test_map[i].func # test_map[j].func))
    /\ []((pc = "static_init" /\ test_map # <<>> /\ Len(test_map) < MaxTests)
            => ENABLED (RegisterTest /\ pc' = "exited"))
    /\ []((pc = "exited" /\ num_tests_ran = 0 /\ started = <<>>)
            => (exit_code = 2 /\ NothingStarted /\ summary = <<>> /\ test_map # <<>>))
    /\ [][ /\ (pc = "static_init" /\ pc' = "exited")
                => (exit_code' = 2 /\ test_map' = test_map /\ next_func' = next_func /\ started' = <<>>)
           /\ (pc = "static_init" /\ pc' = "static_init")
                => \A i \in 1..Len(test_map) :
                      \E j \in 1..Len(test_map') : test_map'[j] = test_map[i]
         ]_vars

\* The process has exited with code 2 on the second registration of the one registered
\* identity; the first registration's function is still in the map.
C17_Witness ==
    /\ pc = "exited"
    /\ exit_code = 2
    /\ Len(test_map) = 1
    /\ test_map[1].func = 1
    /\ next_func = 2
    /\ NothingStarted

\* The tests that ended Failed, as positions in the run order.
FailedRuns == { i \in 1..Len(outcome) : outcome[i] = "Failed" }

\* The k-th Failed test in run order.
KthFailed(k) == CHOOSE i \in FailedRuns : Cardinality({ j \in FailedRuns : j < i }) = k - 1

\* C18: when RunTests returns after running N tests, F of them Failed: with F = 0 the summary
\* is the single line 'All N ... passed'; otherwise it is the heading, one line per Failed
\* test, each once and in run order, and the line 'Ran N ..., N - F passed, F FAILED'.
C18_SummaryCounts ==
    (pc = "returned" /\ test_map # <<>>)
        => LET N == Len(test_map)
               F == Cardinality(FailedRuns)
           IN  /\ Len(outcome) = N
               /\ (summary[1][1] = "All") <=> (F = 0)
               /\ F = 0 => (/\ Len(summary) = 1
                            /\ summary[1][2] = N
                            /\ summary[1][4] = "passed")
               /\ F > 0 => (/\ Len(summary) = F + 2
                            /\ summary[1] = <<"Failed", "tests">>
                            /\ \A k \in 1..F :
                                  summary[k + 1] = <<"at", DescOf(started[KthFailed(k)])>>
                            /\ LET ran == summary[F + 2]
                               IN  /\ ran[1] = "Ran"
                                   /\ ran[2] = N
                                   /\ ran[4] = N - F
                                   /\ ran[5] = "passed"
                                   /\ ran[6] = F
                                   /\ ran[7] = "FAILED")

\* Three-line summary of a run of two tests, the first of which Failed.
C18_Witness ==
    /\ pc = "returned"
    /\ outcome = <<"Failed", "Passed">>
    /\ Len(summary) = 3
    /\ summary[3][4] = 1

\* RunTests has returned from a suite of one test, which Passed.
OneTestPassed ==
    /\ pc = "returned"
    /\ Len(test_map) = 1
    /\ outcome = <<"Passed">>

\* C19 as claimed: for a suite of one test that does not fail, the summary is the line
\* 'All 1 tests passed' and the exit code is 0.
C19_AllOneTestsPassed ==
    OneTestPassed => (summary = << <<"All", 1, "tests", "passed">> >> /\ exit_code = 0)

\* C19 as amended: for a suite of one test that does not fail, the summary is the line
\* 'All 1 test passed' (singular) and the exit code is 0.
C19_AllOneTestPassed ==
    OneTestPassed => (summary = << <<"All", 1, "test", "passed">> >> /\ exit_code = 0)

\* The one test of the suite has executed its two statements and Passed; RunTests returned 0.
C19_Witness ==
    /\ OneTestPassed
    /\ body_len = 2
    /\ stmt = 2
    /\ exit_code = 0
    /\ ended_by = "return"

----------------------------------------------------------------------------
\* The statement executed last let a chain deeper than max_num_caught_exceptions escape.
DeepStmt ==
    /\ last_stmt.res.kind = "throw"
    /\ Len(last_stmt.res.exc) > max_num_caught_exceptions

\* C20, as stated: wherever a chain is captured (a must-throw check, a boolean check whose
\* probe threw, the runner's handler of an uncaught exception), a chain deeper than 128
\* levels ends the process with exit code 2, no level past the bound is walked and no
\* failure is recorded for the test.
C20_BoundedEverywhere ==
    /\ (last_stmt.kind \in {"check", "must_throw"} /\ DeepStmt)
          => /\ pc = "exited"
             /\ exit_code = 2
             /\ ~HasFail(events)
             /\ ~fail_test
    /\ ChainLines(events) <= max_num_caught_exceptions
    /\ (last_stmt.kind = "throw" /\ DeepStmt) => failed_tests = <<>>

\* C20, amended: only the must-throw check is depth-bounded.  There a chain of more than 128
\* levels ends the process with exit code 2 and nothing but the exit happens: no report, no
\* failure flag, no entry in failed_tests; a chain of exactly 128 levels is captured whole.
\* A boolean check whose probe threw, and the runner for an uncaught exception, print every
\* level of the chain whatever its depth, and mark the test failed.
C20_BoundedInMustThrowOnly ==
    /\ [](pc = "exited" <=> (last_stmt.kind = "must_throw" /\ DeepStmt))
    /\ [](pc = "exited"
            => /\ exit_code = 2
               /\ events = << Exit2 >>
               /\ failed_tests = <<>>
               /\ outcome = << "Running" >>)
    /\ [][ (pc' = "exited" /\ pc # "exited")
              => /\ fail_test' = fail_test
                 /\ reports' = reports ]_vars
    /\ []((last_stmt.kind = "must_throw" /\ last_stmt.res.kind = "throw" /\ ~DeepStmt)
            => /\ Len(Captured) = Len(last_stmt.res.exc)
               /\ (last_stmt.args # <<>> => Len(TypeRows(events)) = Len(last_stmt.res.exc)))
    /\ []((last_stmt.kind = "check" /\ last_stmt.res.kind = "throw")
            => /\ ChainLines(events) = Len(last_stmt.res.exc)
               /\ ReportsOf(events) = << "assertion_failed_at" >>
               /\ fail_test
               /\ exit_code # 2)
    /\ [][ (pc = "body" /\ flight.kind = "throw")
              => /\ ChainLines(events') = Len(flight.exc)
                 /\ fail_test'
                 /\ pc' = "after_run"
                 /\ exit_code' = exit_code ]_vars
    /\ []((pc = "loop" /\ ended_by = "error") => failed_tests = << 1 >>)

\* A boolean check printed all 129 levels of the chain its probe threw, and the test goes on.
C20_Witness ==
    /\ last_stmt.kind = "check"
    /\ DeepStmt
    /\ ChainLines(events) = max_num_caught_exceptions + 1
    /\ fail_test
    /\ pc = "body"
    /\ exit_code = -1

----------------------------------------------------------------------------
\* The positions in evs at which a check throws InterruptTestException itself.
ThrowPositions(evs) == { k \in 1..Len(evs) : evs[k] = ThrowInterrupt }

\* The check executed last threw InterruptTestException itself (it did not pass on one thrown
\* by its lambda).
CheckRaisedInterrupt ==
    /\ last_stmt.kind \in {"check", "must_throw"}
    /\ last_stmt.res.kind # "interrupt"
    /\ flight = Interrupt

\* C21: whenever a check itself throws the interrupt (a hard boolean check that failed, a hard
\* must-throw check that failed with "Missing exception" or "Incorrect exception"), the write
\* to the failure flag and the first line of the check's report come earlier in the check's
\* effects, the throw is the last effect, and the flag of the running test is set while the
\* interrupt propagates.
C21_RecordedBeforeAbort ==
    /\ \A k \in ThrowPositions(events) :
          /\ k = Len(events)
          /\ \E j \in 1..(k - 1) : events[j] = SetFail
          /\ \E j \in 1..(k - 1) : events[j].e = "print" /\ events[j].line.tag \in ReportTags
          /\ last_stmt.stop
          /\ flight = Interrupt
    /\ CheckRaisedInterrupt
          => /\ ThrowPositions(events) = { Len(events) }
             /\ fail_test
             /\ reports >= 1
             /\ Len(ReportsOf(events)) = 1

\* A hard must-throw check threw the interrupt after its "Incorrect exception" report.
C21_Witness ==
    /\ CheckRaisedInterrupt
    /\ last_stmt.kind = "must_throw"
    /\ ReportsOf(events) = << "incorrect_exception_at" >>
    /\ events[Len(events)] = ThrowInterrupt
    /\ fail_test

----------------------------------------------------------------------------
\* How many of the effects evs are the printing of a line with this tag.
CountTag(evs, tag) == Len(SelectSeq(evs, LAMBDA ev : ev.e = "print" /\ ev.line.tag = tag))

CountFail(evs) == Len(SelectSeq(evs, LAMBDA ev : ev.e = "fail"))

\* C22: one evaluation of a boolean check, soft or hard, emits exactly one failure report and
\* writes the failure flag once when its lambda returns false or lets an exception other than
\* the interrupt escape, and emits nothing when the lambda returns true or throws the
\* interrupt; the report has the line "Evaluated to false." exactly when the lambda returned
\* false, and the line "Threw an uncaught exception:" followed by one type line per level of
\* the chain exactly when the lambda threw.
C22_OneReportPerCheck ==
    last_stmt.kind = "check"
        => LET res == last_stmt.res
               threw == res.kind = "throw"
               returned_false == res.kind = "return" /\ ~res.value
           IN  /\ (threw \/ returned_false)
                     => /\ ReportsOf(events) = << "assertion_failed_at" >>
                        /\ CountFail(events) = 1
                        /\ CountTag(events, "expression") = 1
                        /\ fail_test
               /\ ~(threw \/ returned_false)
                     => /\ NoOutput(events)
                        /\ ReportsOf(events) = <<>>
                        /\ CountFail(events) = 0
               /\ CountTag(events, "evaluated_to_false") = (IF returned_false THEN 1 ELSE 0)
               /\ CountTag(events, "threw_uncaught") = (IF threw THEN 1 ELSE 0)
               /\ ChainLines(events) = (IF threw THEN Len(res.exc) ELSE 0)

\* A soft boolean check whose lambda threw a chain of two levels has reported it once.
C22_Witness ==
    /\ last_stmt.kind = "check"
    /\ ~last_stmt.stop
    /\ last_stmt.res.kind = "throw"
    /\ Len(last_stmt.res.exc) = 2
    /\ ReportsOf(events) = << "assertion_failed_at" >>
    /\ ChainLines(events) = 2
    /\ flight = NoFlight

----------------------------------------------------------------------------
\* The test function of the current iteration is being called, or has been left and the scope
\* of the Guard not yet.
InGuardScope == pc \in {"body", "after_run"}

\* C23: fail_test_ptr points at the fail_test of the running test exactly from the call of its
\* function to the end of the Guard's scope, and is null before the first test, between two
\* tests and after the last, however the body was left (return, interrupt, other exception);
\* at most one test is Running, and the pointer never designates a test that has ended.
C23_FailureSlotLifetime ==
    /\ [](fail_test_ptr # 0 <=> InGuardScope)
    /\ [](InGuardScope
            => /\ fail_test_ptr = num_tests_ran
               /\ outcome[fail_test_ptr] = "Running")
    /\ [](\A i, j \in 1..Len(outcome) : (outcome[i] = "Running" /\ outcome[j] = "Running") => i = j)
    /\ [](\A i \in 1..Len(outcome) : outcome[i] # "Running" => fail_test_ptr # i)
    /\ [][ (pc = "after_run" /\ pc' # pc)
              => /\ ended_by \in {"return", "interrupt", "error"}
                 /\ fail_test_ptr' = 0
                 /\ fail_test' = fail_test ]_vars

\* Between two tests, after the first one was left by an exception: the pointer is null.
C23_Witness ==
    /\ pc = "loop"
    /\ num_tests_ran = 1
    /\ Len(test_map) = 2
    /\ ended_by = "error"
    /\ outcome = << "Failed" >>
    /\ fail_test_ptr = 0

----------------------------------------------------------------------------
\* The must-throw check executed last had a body that threw InterruptTestException.
MustThrowBodyInterrupted ==
    /\ last_stmt.kind = "must_throw"
    /\ last_stmt.res.kind = "interrupt"

\* C24, as stated: a must-throw check whose body throws the interrupt records a "Missing
\* exception" failure: the failure flag is set and the report is emitted.
C24_InterruptIsMissingError ==
    MustThrowBodyInterrupted
        => /\ ReportsOf(events) = << "missing_exception_at" >>
           /\ HasFail(events)
           /\ fail_test

\* C24, amended: a must-throw check whose body throws the interrupt passes the interrupt on,
\* soft or hard and whatever it expects: the check writes no flag and prints nothing, no later
\* statement of the body runs, and a test that failed nowhere else ends Passed.
C24_InterruptPassesThrough ==
    /\ [](MustThrowBodyInterrupted
            => /\ events = << RethrowInterrupt >>
               /\ flight = Interrupt
               /\ ~fail_test
               /\ reports = 0
               /\ pc = "body")
    /\ [][ MustThrowBodyInterrupted
              => /\ stmt' = stmt
                 /\ pc' = "after_run"
                 /\ ended_by' = "interrupt"
                 /\ fail_test' = fail_test
                 /\ reports' = reports ]_vars
    /\ []((pc = "loop" /\ ended_by = "interrupt" /\ reports = 0) => outcome = << "Passed" >>)

\* A soft check expecting one exception has passed on the interrupt its body threw, with a
\* statement of the body left to run.
C24_Witness ==
    /\ MustThrowBodyInterrupted
    /\ ~last_stmt.stop
    /\ Len(last_stmt.args) = 1
    /\ flight = Interrupt
    /\ stmt < body_len
    /\ ~fail_test

----------------------------------------------------------------------------
\* The must-throw check executed last has failed, with either report.
MustThrowFailed ==
    /\ last_stmt.kind = "must_throw"
    /\ ReportsOf(events) # <<>>

\* C25: after a must-throw check has failed ("Missing exception" or "Incorrect exception"), a
\* hard check throws the interrupt as its last effect and no later statement of the body runs,
\* and a soft check returns and the next statement can run; for "Incorrect exception" the
\* report, the two header lines and the blocks of all max(caught, expected) indexes are
\* printed, hard or soft, and nothing else comes before the throw.
C25_MustThrowSoftHard ==
    /\ [](MustThrowFailed
            => /\ fail_test
               /\ ReportsOf(events) \in { << "missing_exception_at" >>, << "incorrect_exception_at" >> }
               /\ pc = "body"
               /\ IF last_stmt.stop
                  THEN /\ flight = Interrupt
                       /\ ThrowPositions(events) = { Len(events) }
                  ELSE /\ flight = NoFlight
                       /\ ThrowPositions(events) = {}
                       /\ stmt < body_len => ENABLED ExecPlainAfter)
    /\ [][ (MustThrowFailed /\ last_stmt.stop)
              => /\ stmt' = stmt
                 /\ pc' = "after_run"
                 /\ ended_by' = "interrupt" ]_vars
    /\ []((MustThrowFailed /\ ReportsOf(events) = << "incorrect_exception_at" >>)
            => LET lines == TableLines(events)
                   n == Max(Len(Captured), Len(last_stmt.args))
               IN  /\ lines[1].line.tag = "exception_header"
                   /\ lines[2].line.tag = "table_header"
                   /\ Len(TypeRows(events)) = n
                   /\ Len(events) = 3 + Len(lines) + (IF last_stmt.stop THEN 1 ELSE 0)
                   /\ events[3].line.tag = "incorrect_exception_at")

\* A hard check expecting one exception has printed the table for a chain of two levels and
\* thrown the interrupt, with a statement of the body left.
C25_Witness ==
    /\ MustThrowFailed
    /\ last_stmt.stop
    /\ ReportsOf(events) = << "incorrect_exception_at" >>
    /\ Len(last_stmt.args) = 1
    /\ Len(TypeRows(events)) = 2
    /\ flight = Interrupt
    /\ stmt < body_len

----------------------------------------------------------------------------
\* C26: the table of an "Incorrect exception" report has one type row for every index from 1
\* to max(captured, expected), in order.  Its left cell is the captured type name, "(unknown)"
\* for a captured element without a type name, "(none)" past the captured chain; its right
\* cell is the expected type name, "(none)" past the expected list; its separator is "|"
\* exactly when both elements exist and have the same type name, "#" otherwise.
C26_TypeRow ==
    MustThrowMismatch
        => LET rows == TypeRows(events)
               args == last_stmt.args
               cap == Captured
               n == Max(Len(cap), Len(args))
           IN  /\ Len(rows) = n
               /\ \A i \in 1..n :
                     LET caught_present == i <= Len(cap)
                         expected_present == i <= Len(args)
                     IN  /\ rows[i].line.left =
                               (IF ~caught_present THEN None6
                                ELSE IF cap[i].type = <<>> THEN Unknown9 ELSE cap[i].type)
                         /\ rows[i].line.right = (IF expected_present THEN args[i].type ELSE None6)
                         /\ rows[i].line.sep \in {"|", "#"}
                         /\ rows[i].line.sep = "|"
                               <=> (caught_present /\ expected_present /\ cap[i].type = args[i].type)

\* Two exceptions expected, std::logic_error then std::runtime_error, and only the first one
\* thrown: the second type row reads "(none) # std::runtime_error".
C26_Witness ==
    /\ MustThrowMismatch
    /\ Len(last_stmt.res.exc) = 1
    /\ Len(last_stmt.args) = 2
    /\ LET rows == TypeRows(events)
       IN  /\ Len(rows) = 2
           /\ rows[1].line.left = StdLogicError
           /\ rows[1].line.sep = "|"
           /\ rows[1].line.right = StdLogicError
           /\ rows[2].line.left = None6
           /\ rows[2].line.sep = "#"
           /\ rows[2].line.right = StdRuntimeError

----------------------------------------------------------------------------
\* The lines of the table among evs, each with the index (1-based) of the block it belongs
\* to: the number of type rows printed up to it.
Blocked(evs) ==
    LET lines == TableLines(evs)
    IN  [k \in 1..Len(lines) |->
            [line |-> lines[k].line,
             blk |-> Cardinality({ j \in 1..k : lines[j].line.tag = "type_row" })]]

\* The message rows of block i.
MessageRowsAt(b, i) == SelectSeq(b, LAMBDA r : r.blk = i /\ r.line.tag = "message_row")

\* The lines of the message of element i of elems (captured or expected exceptions): none when
\* there is no such element or it has no type name.
LinesAt(elems, i) ==
    IF i <= Len(elems) /\ elems[i].type # <<>> THEN SplitString(elems[i].message) ELSE <<>>

\* C27: in the block of every index of the table, row k pairs line k of the captured message
\* with line k of the expected message, and no line of either message is left out.  A side
\* that has a line k is marked " " and shows that line; a side that has none is marked "."
\* and shows nothing; the separator is "|" exactly when both sides have a line k and the two
\* lines are equal, "#" otherwise.
C27_MessageRows ==
    MustThrowMismatch
        => LET b == Blocked(events)
               cap == Captured
               args == last_stmt.args
           IN  \A i \in 1..Max(Len(cap), Len(args)) :
                  LET rs == MessageRowsAt(b, i)
                      cl == LinesAt(cap, i)
                      el == LinesAt(args, i)
                  IN  /\ Len(rs) >= Max(Len(cl), Len(el))
                      /\ \A k \in 1..Len(rs) :
                            LET row == rs[k].line
                            IN  /\ row.lmark = (IF k <= Len(cl) THEN " " ELSE ".")
                                /\ row.left = (IF k <= Len(cl) THEN cl[k] ELSE <<>>)
                                /\ row.rmark = (IF k <= Len(el) THEN " " ELSE ".")
                                /\ row.right = (IF k <= Len(el) THEN el[k] ELSE <<>>)
                                /\ row.sep \in {"|", "#"}
                                /\ row.sep = "|" <=> (k <= Len(cl) /\ k <= Len(el) /\ cl[k] = el[k])

\* One exception thrown and one expected, of the same type, with messages of two lines that
\* differ in the second line: the first message row has "|", the second "#".
C27_Witness ==
    /\ MustThrowMismatch
    /\ Len(last_stmt.res.exc) = 1
    /\ Len(last_stmt.args) = 1
    /\ Captured[1].message = MsgAB
    /\ last_stmt.args[1].message = MsgAC
    /\ LET rs == MessageRowsAt(Blocked(events), 1)
       IN  /\ Len(rs) = 2
           /\ rs[1].line.sep = "|"
           /\ rs[1].line.lmark = " "
           /\ rs[2].line.sep = "#"
           /\ rs[2].line.left = << "b" >>
           /\ rs[2].line.right = << "c" >>

----------------------------------------------------------------------------
\* C28: in the block of every index of the table, the number of message rows is the larger of
\* the numbers of lines of the captured and of the expected message, a message having one
\* line more than it has line breaks and a missing message (no element at the index, or a
\* captured element without a type name) having no line; so a block in which neither side has
\* a message has no message row.
C28_MessageRowCount ==
    MustThrowMismatch
        => LET b == Blocked(events)
               cap == Captured
               args == last_stmt.args
           IN  \A i \in 1..Max(Len(cap), Len(args)) :
                  Len(MessageRowsAt(b, i)) = Max(Len(LinesAt(cap, i)), Len(LinesAt(args, i)))

----------------------------------------------------------------------------
SetMax(S) == CHOOSE w \in S : \A x \in S : x <= w

\* The lengths of the type names of elems, and of the lines of their messages plus the
\* indentation of a message line.
TypeLens(elems) == { Len(elems[i].type) : i \in 1..Len(elems) }
LineLens(elems) ==
    UNION { { Len(SplitString(elems[i].message)[k]) + message_indent
                : k \in 1..Len(SplitString(elems[i].message)) }
            : i \in 1..Len(elems) }

\* Every row of the table among evs pads its left column to w characters: the header row and
\* the type rows pad a cell of w, the message rows indent by message_indent and pad the rest.
OneWidth(evs, w) ==
    \A k \in 1..Len(evs) :
        (evs[k].e = "print" /\ evs[k].line.tag \in {"table_header", "type_row", "message_row"})
            => evs[k].line.width =
                 (IF evs[k].line.tag = "message_row" THEN w - message_indent ELSE w)

\* The width the table of the check executed last was printed with.
TableWidth == TableLines(events)[2].line.width

\* C29, as stated: the left column of every row of the table has one width, and that width is
\* the largest among the lengths of the captured and the expected type names, the lengths of
\* the lines of the captured and the expected messages plus 4, and the lengths of the labels
\* "Caught" and "Expected".
C29_WidthOfAllDisplayed ==
    MustThrowMismatch
        => LET cap == Captured
               args == last_stmt.args
           IN  /\ OneWidth(events, TableWidth)
               /\ TableWidth = SetMax({ Len(Caught), Len(Expected) }
                                      \cup TypeLens(cap) \cup TypeLens(args)
                                      \cup LineLens(cap) \cup LineLens(args))

\* C29, amended: the left column of every row of the table has one width, and that width is
\* the largest among 9 (the length of "(unknown)", printed or not), the lengths of the
\* captured type names and the lengths of the lines of the captured messages plus 4; what is
\* expected and the labels of the header do not count.
C29_WidthOfCaught ==
    MustThrowMismatch
        => LET cap == Captured
           IN  /\ OneWidth(events, TableWidth)
               /\ TableWidth = SetMax({ Len(Unknown9) } \cup TypeLens(cap) \cup LineLens(cap))

\* A table whose width is that of the first line of the captured message plus 4, longer than
\* every type name printed.
C29_Witness ==
    /\ MustThrowMismatch
    /\ Len(last_stmt.args) = 1
    /\ last_stmt.args[1].type = StdRuntimeError
    /\ last_stmt.res.exc = <<Known("St11logic_error", SV(MsgLong))>>
    /\ TableWidth = 26

----------------------------------------------------------------------------
\* The rows of the table among evs: the header row, the type rows and the message rows.
TableRows(evs) ==
    SelectSeq(evs, LAMBDA ev : ev.e = "print" /\ ev.line.tag \in {"table_header", "type_row", "message_row"})

\* C30: in every table (a captured chain of at most 128 elements against a non-empty list of
\* expected exceptions) no left cell is longer than the width it is padded to: "Caught", every
\* captured type name, "(unknown)", "(none)" are at most W long and every captured message
\* line at most W - 4, also for captured elements past the end of the expected list; so the
\* separator is at the same column in the header row, every type row and every message row.
C30_Alignment ==
    MustThrowMismatch
        => LET rows == TableRows(events)
               w == TableWidth
           IN  /\ Len(Captured) <= max_num_caught_exceptions
               /\ last_stmt.args # <<>>
               /\ w >= Len(Unknown9)
               /\ \A k \in 1..Len(rows) :
                     /\ Len(rows[k].line.left) <= rows[k].line.width
                     /\ SepColumn(rows[k].line) = 8 + w + 1

\* One exception expected and two captured, the second with a message line longer than every
\* type name: its message row is as wide as the table, and the table is aligned on it.
C30_Witness ==
    /\ MustThrowMismatch
    /\ Len(last_stmt.args) = 1
    /\ Len(last_stmt.res.exc) = 2
    /\ last_stmt.res.exc[2].what = SV(MsgLong)
    /\ TableWidth = 26
    /\ \E k \in 1..Len(TableRows(events)) :
          /\ TableRows(events)[k].line.tag = "message_row"
          /\ Len(TableRows(events)[k].line.left) = 22

----------------------------------------------------------------------------
\* Element i is captured and expected, with the same type name and the same message.
ElementMatches(cap, args, i) ==
    /\ i <= Len(cap)
    /\ i <= Len(args)
    /\ cap[i].type = args[i].type
    /\ cap[i].message = args[i].message

\* The rows of block i (its type row and its message rows) that have the separator "#".
HashRowsAt(b, i) == SelectSeq(b, LAMBDA r : r.blk = i /\ r.line.tag # "table_header" /\ r.line.sep = "#")

\* C31: a must-throw check prints a table only when some element does not match (it is
\* missing on one side, or the type names differ, or the messages differ), and when it caught
\* something against a non-empty list and every element matches it prints none; in a table
\* the block of index i has a row with "#" exactly when element i does not match, so every
\* table has a "#" row and the block of a matching element has only "|" rows.
C31_DiffAgreesWithVerdict ==
    (MustThrowCaught /\ last_stmt.args # <<>>)
        => LET b == SelectSeq(Blocked(events), LAMBDA r : r.line.tag \in {"type_row", "message_row"})
               cap == Captured
               args == last_stmt.args
               n == Max(Len(cap), Len(args))
               all_match == \A i \in 1..n : ElementMatches(cap, args, i)
           IN  /\ all_match <=> TableLines(events) = <<>>
               /\ ~all_match
                     => /\ MustThrowMismatch
                        /\ \A i \in 1..n : (HashRowsAt(b, i) # <<>>) <=> ~ElementMatches(cap, args, i)
                        /\ \E k \in 1..Len(b) : b[k].line.sep = "#"
                        /\ \A k \in 1..Len(b) :
                              ElementMatches(cap, args, b[k].blk) => b[k].line.sep = "|"

\* Two captured against two expected: the first element matches and its block has only "|"
\* rows, the messages of the second differ and its block has a "#" row under a "|" type row.
C31_Witness ==
    /\ MustThrowMismatch
    /\ Len(last_stmt.args) = 2
    /\ Len(Captured) = 2
    /\ ElementMatches(Captured, last_stmt.args, 1)
    /\ Captured[2].type = last_stmt.args[2].type
    /\ Captured[2].message # last_stmt.args[2].message
    /\ LET b == Blocked(events)
       IN  /\ HashRowsAt(b, 1) = <<>>
           /\ HashRowsAt(b, 2) # <<>>
           /\ TypeRows(events)[2].line.sep = "|"

----------------------------------------------------------------------------
\* The statement executed last called AnalyzeCurrentException with its own callback.
Analyzed == last_stmt.kind = "analyze"

\* What the callback was called with, in order, and what AnalyzeCurrentException returned.
Calls(evs) == SelectSeq(evs, LAMBDA ev : ev.e = "call")
Returned(evs) == evs[Len(evs)].value

\* The call made for an unknown exception: no type name and no message.
IsUnknownCall(c) == c.type = NullSV /\ c.message = NullSV

\* What the callback is to be called with for the level e of a chain.
CallFor(e) ==
    IF e.known THEN [type |-> SV(EatPrefix(Demangle(e.tid))), message |-> e.what]
    ELSE [type |-> NullSV, message |-> NullSV]

\* How many levels of exc can be looked at: up to the first one that is no std::exception,
\* all of them when there is none.
WalkLen(exc) ==
    LET foreign == { i \in 1..Len(exc) : ~exc[i].known }
    IN  IF foreign = {} THEN Len(exc) ELSE CHOOSE i \in foreign : \A j \in foreign : i <= j

\* C32: what AnalyzeCurrentException hands to a callback that never returns true is a chain
\* of at least one element, element i being level i of the exception handled, the outermost
\* first; the unknown element (no type name, no message) can only be the last one, because
\* nothing nested in a value that is no std::exception is looked at; otherwise the chain ends
\* at the std::exception that has nothing nested in it.
C32_ChainShape ==
    Analyzed
        => LET calls == Calls(events)
               exc == last_stmt.res.exc
               never_true == last_stmt.args[1] = 0
           IN  /\ Len(calls) >= 1
               /\ Len(calls) <= Len(exc)
               /\ \A i \in 1..Len(calls) :
                     /\ [type |-> calls[i].type, message |-> calls[i].message] = CallFor(exc[i])
                     /\ IsUnknownCall(calls[i]) => i = Len(calls)
               /\ never_true
                     => /\ Len(calls) = WalkLen(exc)
                        /\ IF IsUnknownCall(calls[Len(calls)])
                           THEN ~exc[Len(calls)].known
                           ELSE Len(calls) = Len(exc) /\ \A i \in 1..Len(exc) : exc[i].known

\* A std::exception with a foreign object nested in it, which has an exception nested in it:
\* two elements, the second unknown; the third level is not looked at.
C32_Witness ==
    /\ Analyzed
    /\ last_stmt.args = << 0 >>
    /\ Len(last_stmt.res.exc) = 3
    /\ Len(Calls(events)) = 2
    /\ IsUnknownCall(Calls(events)[2])
    /\ ~IsUnknownCall(Calls(events)[1])

\* C35: AnalyzeCurrentException calls its callback for the levels of the exception handled in
\* order, the outermost first, at least once; when the callback returns true for a level, the
\* outermost or a nested one, no further level is visited and AnalyzeCurrentException returns
\* true; it returns false only when the callback returned false for every level visited.
C35_AnalyzeReturnsTrue ==
    Analyzed
        => LET calls == Calls(events)
               exc == last_stmt.res.exc
               true_on == last_stmt.args[1]
               w == WalkLen(exc)
           IN  /\ Len(calls) >= 1
               /\ \A i \in 1..Len(calls) :
                     [type |-> calls[i].type, message |-> calls[i].message] = CallFor(exc[i])
               /\ IF true_on \in 1..w
                  THEN Len(calls) = true_on /\ Returned(events) = TRUE
                  ELSE Len(calls) = w /\ Returned(events) = FALSE

----------------------------------------------------------------------------
\* C33: in a build without exceptions a failing hard boolean check sets the failure flag and
\* emits its one report like a soft one, and throws nothing: the body goes on, every later
\* failing check sets the flag and reports as well, the body is left only by returning after
\* its last statement, and the test ends Failed.
C33_NoExceptionsDegraded ==
    /\ [][ (StmtStep /\ CheckFails(last_stmt'))
              => /\ fail_test'
                 /\ reports' = reports + 1
                 /\ ReportsOf(events') = << "assertion_failed_at" >>
                 /\ ThrowPositions(events') = {}
                 /\ flight' = NoFlight
                 /\ pc' = "body" ]_vars
    /\ [](flight = NoFlight)
    /\ []((pc = "body" /\ stmt < body_len) => (ENABLED ExecPlain /\ ENABLED ExecCheckNoExceptions))
    /\ [][ (pc = "body" /\ pc' # "body")
              => /\ stmt = body_len
                 /\ ended_by' = "return" ]_vars
    /\ []((pc = "loop" /\ num_tests_ran >= 1)
            => (outcome[num_tests_ran] = "Failed" <=> reports >= 1))

\* After a failing check the body went on, and its second statement, a hard check, has
\* failed too; a third statement is left to run.
C33_Witness ==
    /\ pc = "body"
    /\ CheckFails(last_stmt)
    /\ last_stmt.stop
    /\ stmt = 2
    /\ reports = 2
    /\ body_len = 3
    /\ fail_test
    /\ flight = NoFlight

----------------------------------------------------------------------------
\* The must-throw check executed last had a body that threw.
MustThrowThrew ==
    /\ last_stmt.kind = "must_throw"
    /\ last_stmt.res.kind = "throw"

\* C34: a must-throw check whose body throws a chain of at most 128 elements, 128 included,
\* captures all of them and gives its usual verdict: it passes without expected exceptions or
\* when the expected ones equal the captured ones one by one, and fails with a table of
\* max(captured, expected) blocks otherwise.  On a chain of 129 elements or more the process
\* exits with code 2 when the callback is called for the 129th, 128 elements being stored;
\* this also without expected exceptions.  The check then neither passes nor fails: nothing
\* is printed, the failure flag and the number of reports stay as they were, and the test is
\* never recorded as Passed or Failed.
C34_DepthBoundary ==
    /\ []((MustThrowThrew /\ Len(last_stmt.res.exc) <= max_num_caught_exceptions)
            => LET cap == Captured
                   args == last_stmt.args
                   depth == Len(last_stmt.res.exc)
                   equal == Len(args) = depth /\ \A i \in 1..depth : args[i] = cap[i]
               IN  /\ pc = "body"
                   /\ exit_code = -1
                   /\ Len(cap) = depth
                   /\ \A i \in 1..depth : cap[i] = [type |-> StdLogicError, message |-> MsgA]
                   /\ (args = <<>> \/ equal) <=> events = <<>>
                   /\ ~(args = <<>> \/ equal)
                         => /\ ReportsOf(events) = << "incorrect_exception_at" >>
                            /\ Len(TypeRows(events)) = Max(depth, Len(args))
                            /\ fail_test)
    /\ []((MustThrowThrew /\ Len(last_stmt.res.exc) > max_num_caught_exceptions)
            => LET st == MustThrowCapture(last_stmt.res.exc, last_stmt.args)
               IN  /\ pc = "exited"
                   /\ exit_code = 2
                   /\ events = << Exit2 >>
                   /\ st.exited
                   /\ st.num_caught_exceptions = max_num_caught_exceptions
                   /\ failed_tests = <<>>
                   /\ outcome = << "Running" >>)
    /\ [](pc = "exited" => (MustThrowThrew /\ Len(last_stmt.res.exc) > max_num_caught_exceptions))
    /\ [][ (pc' = "exited" /\ pc # "exited")
              => /\ fail_test' = fail_test
                 /\ reports' = reports
                 /\ flight' = NoFlight ]_vars
    /\ [][ pc = "exited" => UNCHANGED vars ]_vars

\* A check without expected exceptions whose body threw a chain of 129 elements: the process
\* has exited with code 2 and the test has no failure on record.
C34_Witness ==
    /\ MustThrowThrew
    /\ Len(last_stmt.res.exc) = max_num_caught_exceptions + 1
    /\ last_stmt.args = <<>>
    /\ pc = "exited"
    /\ exit_code = 2
    /\ ~fail_test
    /\ reports = 0

====
